---- MODULE Spec2Model ----
(***************************************************************************)
(* Request-security subsystem of alx-polly: the in-memory RateLimiter      *)
(* (lib/rate-limit.ts), the CSRF token service (lib/csrf.ts) and the       *)
(* session guardian (lib/session-management.ts).                           *)
(*                                                                         *)
(* Time is the value of Date.now() in milliseconds.  Every operation reads *)
(* the clock once and runs to completion (single-threaded JavaScript; the  *)
(* awaits inside one handler are modelled inside that handler's action).   *)
(***************************************************************************)
EXTENDS Integers, Sequences, FiniteSets, TLC

VARIABLES
    now,              \* Date.now()
    attempts,         \* RateLimiter.attempts : identifier -> entry | NoEntry
    maxAttempts,      \* RateLimiter.maxAttempts
    windowMs,         \* RateLimiter.windowMs
    blockDurationMs,  \* RateLimiter.blockDurationMs
    hist,             \* history of the failures recorded per identifier
    cookies,          \* the client's cookie jar, as cookies() of next/headers reads it
    honoursTTL,       \* whether the client drops a cookie when its maxAge has run out
    generated,        \* number of values crypto.randomBytes has returned
    issued,           \* the tokens generateCSRFToken has returned, oldest first
    session,          \* whether the identity provider holds a session
    track,            \* history of updateSessionActivity for the provider session
    steps,            \* number of steps the CSRF or session clock has taken
    requests,         \* the login and register requests in flight, one per slot
    parked,           \* the RateLimiter instance that is not the receiver of the
                      \* limiter calls (generalRateLimiter, unless dispatched)
    provider,         \* the AuthProvider component: its React state, the mounted
                      \* flag of its effect and its pending asynchronous work
    lastOp            \* the operation that ran last, what it found, its argument
                      \* and its result (none once the CSRF or session clock
                      \* has moved)

limVars == <<attempts, maxAttempts, windowMs, blockDurationMs, hist>>
csrfVars == <<generated, issued>>
jarVars == <<cookies, honoursTTL, steps>>
sessVars == <<session, track>>
authVars == <<requests>>
compVars == <<parked, provider>>
vars == <<now, attempts, maxAttempts, windowMs, blockDurationMs, hist,
          cookies, honoursTTL, steps, generated, issued, session, track,
          requests, parked, provider, lastOp>>

(***************************************************************************)
(* Bounds of the model.                                                    *)
(***************************************************************************)
MaxTime == 7          \* the limiter's clock runs over 0..MaxTime
MaxConfigAttempts == 3 \* limiter configurations have maxAttempts in 1..this
MaxCount == 4         \* recordFailedAttempt is not called past this count
MaxScenarioTime == 2300 \* the clock of the concrete scenario runs over 0..this
TokenBytes == 2       \* bytes drawn per random value and per digest (the code: 32)
MaxGenerated == 6     \* random values drawn in one run
MaxCsrfTicks == 4     \* steps of the CSRF clock in one run
MaxSessionTicks == 3  \* steps of the session clock in one run
MaxDayTicks == 50     \* half-hour steps of the session clock in a day-long run
SessionEpoch == 100000000 \* Date.now() when a session run starts
MaxAdvisoryTicks == 2 \* steps of the clock in a run of the advisory reads
MaxRequests == 2      \* login and register requests in flight at once
MaxAuthTime == 2      \* the clock of the authentication actions runs over 0..this
MaxRecordedFailures == 3 \* failures on record in the two limiter instances together
MaxMounts == 2        \* runs of the AuthProvider's effect (React re-runs it after a cleanup)
MaxStoredTicks == 2   \* steps of one millisecond in a run on stored timestamps

Ids == {"x", "unknown"}
Windows == {2, 4}
BlockDurations == {3}

NoEntry == [count |-> 0, resetTime |-> 0, blocked |-> FALSE, present |-> FALSE]
NoOp == [op |-> "none", arg |-> "", pre |-> "", ret |-> FALSE]

CookieNames == {"csrf-token", "csrf-secret", "last-activity", "session-created"}
NoCookie == [present |-> FALSE, value |-> <<>>, expires |-> 0]
NoHist == [streak |-> 0, windowStart |-> 0, triggerAt |-> -1]
NoTrack == [firstTouchAt |-> -1, lastTouchAt |-> -1, gapOk |-> TRUE]
Slots == 1..MaxRequests
NoRequest == [stage |-> "idle", kind |-> "", id |-> ""]

\* generalRateLimiter, with no entry
GeneralIdle ==
    [name |-> "general",
     attempts |-> [id \in Ids |-> NoEntry],
     maxAttempts |-> 100,
     windowMs |-> 60 * 1000,
     blockDurationMs |-> 5 * 60 * 1000,
     hist |-> [id \in Ids |-> NoHist]]

\* The AuthProvider before its effect has run: the initial values of its
\* three useState cells, no effect run (effect 0), no getUser call made, no
\* listener subscribed.
Effects == 1..MaxMounts
NoProvider ==
    [phase |-> "rendered", session |-> "null", user |-> "null", loading |-> TRUE,
     effect |-> 0, getUser |-> [e \in Effects |-> "idle"]]

\* The components a specification does not exercise, at rest.
LimiterIdle ==
    /\ attempts = [id \in Ids |-> NoEntry]
    /\ maxAttempts = 5
    /\ windowMs = 15 * 60 * 1000
    /\ blockDurationMs = 30 * 60 * 1000
    /\ hist = [id \in Ids |-> NoHist]

OthersIdle ==
    /\ cookies = [n \in CookieNames |-> NoCookie]
    /\ honoursTTL = TRUE
    /\ steps = 0
    /\ generated = 0
    /\ issued = <<>>
    /\ session = FALSE
    /\ track = NoTrack
    /\ requests = [s \in Slots |-> NoRequest]
    /\ parked = GeneralIdle
    /\ provider = NoProvider

Max(a, b) == IF a >= b THEN a ELSE b

\* Math.ceil(a / b) for b > 0 (a may be negative: -0.5 rounds up to 0)
CeilDiv(a, b) == IF a >= 0 THEN (a + b - 1) \div b ELSE -((-a) \div b)

(***************************************************************************)
(* RateLimiter                                                             *)
(***************************************************************************)

\* An isRateLimited that allows on an expired window without deleting the entry.
isRateLimitedKeepsExpired(m, id, t) ==
    LET entry == m[id] IN
    IF ~entry.present THEN [ret |-> FALSE, attempts |-> m]
    ELSE IF entry.blocked /\ t > entry.resetTime
         THEN [ret |-> FALSE, attempts |-> [m EXCEPT ![id] = NoEntry]]
    ELSE IF entry.blocked THEN [ret |-> TRUE, attempts |-> m]
    ELSE IF t > entry.resetTime THEN [ret |-> FALSE, attempts |-> m]
    ELSE [ret |-> entry.count >= maxAttempts, attempts |-> m]

\* An isRateLimited that purges an entry at its resetTime already.
isRateLimitedPurgesAtBoundary(m, id, t) ==
    LET entry == m[id] IN
    IF ~entry.present THEN [ret |-> FALSE, attempts |-> m]
    ELSE IF entry.blocked /\ t >= entry.resetTime
         THEN [ret |-> FALSE, attempts |-> [m EXCEPT ![id] = NoEntry]]
    ELSE IF entry.blocked THEN [ret |-> TRUE, attempts |-> m]
    ELSE IF t >= entry.resetTime
         THEN [ret |-> FALSE, attempts |-> [m EXCEPT ![id] = NoEntry]]
    ELSE [ret |-> entry.count >= maxAttempts, attempts |-> m]

\* isRateLimited(identifier): the returned value and the map afterwards
isRateLimited(m, id, t) ==
    LET entry == m[id] IN
    IF ~entry.present THEN [ret |-> FALSE, attempts |-> m]
    ELSE IF entry.blocked /\ t > entry.resetTime
         THEN [ret |-> FALSE, attempts |-> [m EXCEPT ![id] = NoEntry]]
    ELSE IF entry.blocked THEN [ret |-> TRUE, attempts |-> m]
    ELSE IF t > entry.resetTime
         THEN [ret |-> FALSE, attempts |-> [m EXCEPT ![id] = NoEntry]]
    ELSE [ret |-> entry.count >= maxAttempts, attempts |-> m]

\* A recordFailedAttempt that keeps the window's expiry when it blocks.
recordFailedAttemptKeepsWindow(m, id, t) ==
    LET entry == m[id] IN
    IF ~entry.present \/ t > entry.resetTime
    THEN [m EXCEPT ![id] = [count |-> 1, resetTime |-> t + windowMs,
                            blocked |-> FALSE, present |-> TRUE]]
    ELSE [m EXCEPT ![id] = [count |-> entry.count + 1,
                            resetTime |-> entry.resetTime,
                            blocked |-> (entry.count + 1 >= maxAttempts),
                            present |-> TRUE]]

\* A recordFailedAttempt whose every failure restarts the window.
recordFailedAttemptSlidesWindow(m, id, t) ==
    LET entry == m[id] IN
    IF ~entry.present \/ t > entry.resetTime
    THEN [m EXCEPT ![id] = [count |-> 1, resetTime |-> t + windowMs,
                            blocked |-> FALSE, present |-> TRUE]]
    ELSE LET c == entry.count + 1 IN
         IF c >= maxAttempts
         THEN [m EXCEPT ![id] = [count |-> c, resetTime |-> t + blockDurationMs,
                                 blocked |-> TRUE, present |-> TRUE]]
         ELSE [m EXCEPT ![id] = [entry EXCEPT !.count = c,
                                              !.resetTime = t + windowMs]]

\* A recordFailedAttempt for which the entry has expired at its resetTime.
recordFailedAttemptExpiresAtBoundary(m, id, t) ==
    LET entry == m[id] IN
    IF ~entry.present \/ t >= entry.resetTime
    THEN [m EXCEPT ![id] = [count |-> 1, resetTime |-> t + windowMs,
                            blocked |-> FALSE, present |-> TRUE]]
    ELSE LET c == entry.count + 1 IN
         IF c >= maxAttempts
         THEN [m EXCEPT ![id] = [count |-> c, resetTime |-> t + blockDurationMs,
                                 blocked |-> TRUE, present |-> TRUE]]
         ELSE [m EXCEPT ![id] = [entry EXCEPT !.count = c]]

\* A recordFailedAttempt that keeps one record for all identifiers.
recordFailedAttemptSharedRecord(m, id, t) ==
    LET entry == m[id]
        next == IF ~entry.present \/ t > entry.resetTime
                THEN [count |-> 1, resetTime |-> t + windowMs,
                      blocked |-> FALSE, present |-> TRUE]
                ELSE IF entry.count + 1 >= maxAttempts
                THEN [count |-> entry.count + 1, resetTime |-> t + blockDurationMs,
                      blocked |-> TRUE, present |-> TRUE]
                ELSE [entry EXCEPT !.count = entry.count + 1]
    IN [i \in DOMAIN m |-> next]

\* recordFailedAttempt(identifier): the map afterwards
recordFailedAttempt(m, id, t) ==
    LET entry == m[id] IN
    IF ~entry.present \/ t > entry.resetTime
    THEN [m EXCEPT ![id] = [count |-> 1, resetTime |-> t + windowMs,
                            blocked |-> FALSE, present |-> TRUE]]
    ELSE LET c == entry.count + 1 IN
         IF c >= maxAttempts
         THEN [m EXCEPT ![id] = [count |-> c, resetTime |-> t + blockDurationMs,
                                 blocked |-> TRUE, present |-> TRUE]]
         ELSE [m EXCEPT ![id] = [entry EXCEPT !.count = c]]

\* A recordSuccessfulAttempt that spares a blocked entry.
recordSuccessfulAttemptSparesBlock(m, id) ==
    IF m[id].present /\ m[id].blocked THEN m ELSE [m EXCEPT ![id] = NoEntry]

\* recordSuccessfulAttempt(identifier): the map afterwards
recordSuccessfulAttempt(m, id) == [m EXCEPT ![id] = NoEntry]

\* getRemainingAttempts(identifier)
\* A getRemainingAttempts that counts an entry whose time has run out.
getRemainingAttemptsIgnoresExpiry(m, id, t) ==
    LET entry == m[id] IN
    IF ~entry.present THEN maxAttempts
    ELSE Max(0, maxAttempts - entry.count)

getRemainingAttempts(m, id, t) ==
    LET entry == m[id] IN
    IF ~entry.present \/ t > entry.resetTime THEN maxAttempts
    ELSE Max(0, maxAttempts - entry.count)

\* A getResetTime without the clamp at zero.
getResetTimeUnclamped(m, id, t) ==
    LET entry == m[id] IN
    IF ~entry.present THEN 0
    ELSE CeilDiv(entry.resetTime - t, 1000)

\* getResetTime(identifier), in seconds
getResetTime(m, id, t) ==
    LET entry == m[id] IN
    IF ~entry.present THEN 0
    ELSE Max(0, CeilDiv(entry.resetTime - t, 1000))

\* The logical state of an identifier's entry at time t.
EntryKind(m, id, t) ==
    IF ~m[id].present THEN "absent"
    ELSE IF t > m[id].resetTime THEN "expired"
    ELSE IF m[id].blocked THEN "blocked"
    ELSE "counting"

(***************************************************************************)
(* The failures recorded for an identifier, kept apart from the map: the   *)
(* number of consecutive failures in the window in force (streak), when    *)
(* that window opened, and the time of the last failure that was the       *)
(* maxAttempts-th or a later one of its window (triggerAt, -1: none).      *)
(* A window stays in force for windowMs from its first failure; once a     *)
(* failure has triggered the block it stays in force for blockDurationMs   *)
(* from that failure.                                                      *)
(***************************************************************************)
HistInForce(h, t) ==
    /\ h.streak > 0
    /\ IF h.triggerAt >= 0 THEN t <= h.triggerAt + blockDurationMs
                           ELSE t <= h.windowStart + windowMs

HistAfterFailure(h, t) ==
    LET s == IF HistInForce(h, t) THEN h.streak + 1 ELSE 1
        w == IF HistInForce(h, t) THEN h.windowStart ELSE t
    IN [streak |-> s, windowStart |-> w,
        triggerAt |-> IF s >= maxAttempts THEN t ELSE -1]

(***************************************************************************)
(* Actions of the limiter                                                  *)
(***************************************************************************)
Tick ==
    /\ now < MaxTime
    /\ now' = now + 1
    /\ UNCHANGED <<authVars, limVars, jarVars, compVars, csrfVars, sessVars, lastOp>>

IsRateLimited(id) ==
    LET r == isRateLimited(attempts, id, now) IN
    /\ attempts' = r.attempts
    /\ lastOp' = [op |-> "isRateLimited", arg |-> id,
                  pre |-> EntryKind(attempts, id, now), ret |-> r.ret]
    /\ UNCHANGED <<authVars, now, maxAttempts, windowMs, blockDurationMs, hist,
                   jarVars, compVars, csrfVars, sessVars>>

RecordFailedAttempt(id) ==
    /\ attempts[id].count < MaxCount
    /\ attempts' = recordFailedAttempt(attempts, id, now)
    /\ hist' = [hist EXCEPT ![id] = HistAfterFailure(hist[id], now)]
    /\ lastOp' = [op |-> "recordFailedAttempt", arg |-> id,
                  pre |-> EntryKind(attempts, id, now), ret |-> FALSE]
    /\ UNCHANGED <<authVars, now, maxAttempts, windowMs, blockDurationMs,
                   jarVars, compVars, csrfVars, sessVars>>

RecordSuccessfulAttempt(id) ==
    /\ attempts' = recordSuccessfulAttempt(attempts, id)
    /\ hist' = [hist EXCEPT ![id] = NoHist]
    /\ lastOp' = [op |-> "recordSuccessfulAttempt", arg |-> id,
                  pre |-> EntryKind(attempts, id, now), ret |-> FALSE]
    /\ UNCHANGED <<authVars, now, maxAttempts, windowMs, blockDurationMs,
                   jarVars, compVars, csrfVars, sessVars>>

\* The advisory reads: neither method writes to the map.
GetRemainingAttempts(id) ==
    /\ lastOp' = [op |-> "getRemainingAttempts", arg |-> id,
                  pre |-> EntryKind(attempts, id, now),
                  ret |-> getRemainingAttempts(attempts, id, now)]
    /\ UNCHANGED <<authVars, now, limVars, jarVars, compVars, csrfVars, sessVars>>

GetResetTime(id) ==
    /\ lastOp' = [op |-> "getResetTime", arg |-> id,
                  pre |-> EntryKind(attempts, id, now),
                  ret |-> getResetTime(attempts, id, now)]
    /\ UNCHANGED <<authVars, now, limVars, jarVars, compVars, csrfVars, sessVars>>

LimiterInit ==
    /\ now = 0
    /\ attempts = [id \in Ids |-> NoEntry]
    /\ maxAttempts \in 1..MaxConfigAttempts
    /\ windowMs \in Windows
    /\ blockDurationMs \in BlockDurations
    /\ hist = [id \in Ids |-> NoHist]
    /\ OthersIdle
    /\ lastOp = NoOp

LimiterNext ==
    \/ Tick
    \/ \E id \in Ids : IsRateLimited(id)
    \/ \E id \in Ids : RecordFailedAttempt(id)
    \/ \E id \in Ids : RecordSuccessfulAttempt(id)

SpecLimiter == LimiterInit /\ [][LimiterNext]_vars

(***************************************************************************)
(* C1: after maxAttempts consecutive failures within one window, for every *)
(* configuration with maxAttempts >= 1, isAllowed is false and is true     *)
(* again only once blockDurationMs has elapsed since the last failure that *)
(* triggered the block.                                                    *)
(***************************************************************************)
C1_BlockedAfterMaxAttempts ==
    \A id \in Ids :
        (hist[id].triggerAt >= 0 /\ now <= hist[id].triggerAt + blockDurationMs)
            => isRateLimited(attempts, id, now).ret

\* The same for the configurations with maxAttempts >= 2.
C1_FromTwoAttempts ==
    maxAttempts >= 2 => C1_BlockedAfterMaxAttempts

\* Witness of the failing case: one failure under maxAttempts = 1, window over,
\* block duration not yet over.
C1_SingleAttemptState ==
    /\ maxAttempts = 1
    /\ hist["x"].triggerAt >= 0
    /\ now > hist["x"].windowStart + windowMs
    /\ now <= hist["x"].triggerAt + blockDurationMs

(***************************************************************************)
(* The concrete scenario: maxAttempts = 3, window = 1000 ms, blockDuration *)
(* = 2000 ms, recordFailedAttempt("x") at t = 0, 100, 200 and nothing else *)
(* for "x" but isRateLimited reads, at any instant.                        *)
(***************************************************************************)
ScenarioFailureTimes == {0, 100, 200}

ScenarioDue(t) == Cardinality({f \in ScenarioFailureTimes : f <= t})

ScenarioInit ==
    /\ now = 0
    /\ attempts = [id \in Ids |-> NoEntry]
    /\ maxAttempts = 3
    /\ windowMs = 1000
    /\ blockDurationMs = 2000
    /\ hist = [id \in Ids |-> NoHist]
    /\ OthersIdle
    /\ lastOp = NoOp

ScenarioFailure ==
    /\ now \in ScenarioFailureTimes
    /\ hist["x"].streak = ScenarioDue(now) - 1
    /\ RecordFailedAttempt("x")

ScenarioTick ==
    /\ now < MaxScenarioTime
    /\ hist["x"].streak >= ScenarioDue(now)
    /\ now' = now + 1
    /\ UNCHANGED <<authVars, limVars, jarVars, compVars, csrfVars, sessVars, lastOp>>

ScenarioRead == IsRateLimited("x")

ScenarioNext ==
    \/ ScenarioFailure
    \/ ScenarioTick
    \/ ScenarioRead

SpecScenario == ScenarioInit /\ [][ScenarioNext]_vars

ScenarioFailuresDone == hist["x"].streak = Cardinality(ScenarioFailureTimes)

(***************************************************************************)
(* C2 as stated: in the scenario isAllowed("x") is false at every t with   *)
(* 201 <= t < 2200 and true at t = 2200 and at every later t.              *)
(***************************************************************************)
C2_TrueFrom2200 ==
    ScenarioFailuresDone =>
        /\ (201 <= now /\ now < 2200) => isRateLimited(attempts, "x", now).ret
        /\ now >= 2200 => ~isRateLimited(attempts, "x", now).ret

(***************************************************************************)
(* C2 as amended: in the scenario isAllowed("x") is false at every t with  *)
(* 201 <= t <= 2200 and true at t = 2201 and at every later t (the block   *)
(* is still in force at the instant now = resetTime).                      *)
(***************************************************************************)
C2_TrueFrom2201 ==
    ScenarioFailuresDone =>
        /\ (201 <= now /\ now <= 2200) => isRateLimited(attempts, "x", now).ret
        /\ now >= 2201 => ~isRateLimited(attempts, "x", now).ret

\* isRateLimited("x") was called at t = 2201 on the lapsed block and allowed.
C2_Witness ==
    /\ ScenarioFailuresDone
    /\ now = 2201
    /\ lastOp = [op |-> "isRateLimited", arg |-> "x", pre |-> "expired",
                 ret |-> FALSE]

(***************************************************************************)
(* C3: after recordSuccess(identifier), from any entry state, the next     *)
(* remainingAttempts is maxAttempts, resetSeconds is 0 and isAllowed is    *)
(* true (the entry is deleted).                                            *)
(***************************************************************************)
C3_SuccessResets ==
    \A id \in Ids :
        (lastOp.op = "recordSuccessfulAttempt" /\ lastOp.arg = id) =>
            /\ ~attempts[id].present
            /\ getRemainingAttempts(attempts, id, now) = maxAttempts
            /\ getResetTime(attempts, id, now) = 0
            /\ ~isRateLimited(attempts, id, now).ret

\* recordSuccess ran on an identifier whose block had not expired.
C3_Witness ==
    /\ lastOp.op = "recordSuccessfulAttempt"
    /\ lastOp.pre = "blocked"
    /\ getRemainingAttempts(attempts, lastOp.arg, now) = maxAttempts

(***************************************************************************)
(* C11: isAllowed(identifier) equals the reference for every entry state   *)
(* and every now: absent -> allow; blocked and past windowResetAt ->       *)
(* delete and allow; blocked and not past -> deny, entry unchanged; not    *)
(* blocked and past -> delete and allow; otherwise allow iff               *)
(* count < maxAttempts, entry unchanged.                                   *)
(***************************************************************************)
C11_Allowed(m, id, t) ==
    CASE ~m[id].present -> TRUE
      [] m[id].present /\ m[id].blocked /\ t > m[id].resetTime -> TRUE
      [] m[id].present /\ m[id].blocked /\ ~(t > m[id].resetTime) -> FALSE
      [] m[id].present /\ ~m[id].blocked /\ t > m[id].resetTime -> TRUE
      [] OTHER -> m[id].count < maxAttempts

C11_Deleted(m, id, t) == m[id].present /\ t > m[id].resetTime

C11_IsAllowedMatchesReference ==
    \A id \in Ids :
        LET r == isRateLimited(attempts, id, now) IN
        /\ (~r.ret) = C11_Allowed(attempts, id, now)
        /\ \A other \in Ids \ {id} : r.attempts[other] = attempts[other]
        /\ IF C11_Deleted(attempts, id, now)
           THEN ~r.attempts[id].present
           ELSE r.attempts[id] = attempts[id]

\* isAllowed ran on an unblocked entry inside its window whose count had
\* reached maxAttempts, denied, and left the entry in place.
C11_Witness ==
    /\ lastOp.op = "isRateLimited"
    /\ lastOp.pre = "counting"
    /\ lastOp.ret
    /\ attempts[lastOp.arg].present
    /\ ~attempts[lastOp.arg].blocked

(***************************************************************************)
(* C12: recordFailure(identifier) at time now: with no entry or an elapsed *)
(* windowResetAt the entry becomes {count: 1, windowResetAt: now + window, *)
(* blocked: false}; otherwise count increases by exactly 1 and, when the   *)
(* new count >= maxAttempts, blocked becomes true and windowResetAt        *)
(* now + blockDuration, while below maxAttempts blocked and windowResetAt  *)
(* are unchanged.                                                          *)
(***************************************************************************)
C12_RecordFailureMatchesReference ==
    \A id \in Ids :
        LET old == attempts[id]
            new == recordFailedAttempt(attempts, id, now)
        IN /\ \A other \in Ids \ {id} : new[other] = attempts[other]
           /\ new[id].present
           /\ IF ~old.present \/ now > old.resetTime
              THEN /\ new[id].count = 1
                   /\ new[id].resetTime = now + windowMs
                   /\ ~new[id].blocked
              ELSE /\ new[id].count = old.count + 1
                   /\ IF new[id].count >= maxAttempts
                      THEN /\ new[id].blocked
                           /\ new[id].resetTime = now + blockDurationMs
                      ELSE /\ new[id].blocked = old.blocked
                           /\ new[id].resetTime = old.resetTime

\* recordFailure ran, later than the window opened, on a counting entry and
\* left its windowResetAt where the first failure had put it.
C12_Witness ==
    /\ lastOp.op = "recordFailedAttempt"
    /\ lastOp.pre = "counting"
    /\ attempts[lastOp.arg].count = 2
    /\ ~attempts[lastOp.arg].blocked
    /\ hist[lastOp.arg].windowStart < now
    /\ attempts[lastOp.arg].resetTime = hist[lastOp.arg].windowStart + windowMs

(***************************************************************************)
(* Cookie store: cookies() of next/headers over the client's jar.  A       *)
(* client that honours maxAge no longer sends a cookie once its expiry     *)
(* time is in the past.                                                    *)
(***************************************************************************)
CookieVisible(jar, name, t) ==
    jar[name].present /\ (honoursTTL => t <= jar[name].expires)

\* cookieStore.get(name)?.value; undefined reads as the empty string, which
\* every caller treats alike (!v, v || default)
CookieValue(jar, name, t) ==
    IF CookieVisible(jar, name, t) THEN jar[name].value ELSE <<>>

\* cookieStore.set(name, value, {maxAge}), maxAge in seconds
CookieSet(jar, name, value, maxAge, t) ==
    [jar EXCEPT ![name] = [present |-> TRUE, value |-> value,
                           expires |-> t + maxAge * 1000]]

\* cookieStore.delete(name)
CookieDelete(jar, name) == [jar EXCEPT ![name] = NoCookie]

(***************************************************************************)
(* Strings are sequences of characters.                                    *)
(***************************************************************************)
HexChars == <<"0", "1", "2", "3", "4", "5", "6", "7",
              "8", "9", "a", "b", "c", "d", "e", "f">>
UpperHexChars == <<"A", "B", "C", "D", "E", "F">>
\* the characters a client puts in place of one: digits of either case, a
\* character that is no digit, the separator
Alphabet == {"0", "1", "9", "a", "f", "A", "F", "g", "."}

RECURSIVE HexStr(_, _)
\* the len lowest hexadecimal digits of n, lower case: Buffer.toString('hex')
HexStr(n, len) ==
    IF len = 0 THEN <<>>
    ELSE Append(HexStr(n \div 16, len - 1), HexChars[(n % 16) + 1])

\* the value of a hexadecimal digit of either case, -1 for any other character
HexDigitValues ==
    [c \in {HexChars[i] : i \in 1..16} \cup {UpperHexChars[i] : i \in 1..6} |->
        IF \E i \in 1..16 : HexChars[i] = c
        THEN (CHOOSE i \in 1..16 : HexChars[i] = c) - 1
        ELSE (CHOOSE i \in 1..6 : UpperHexChars[i] = c) + 9]

HexDigitValue(c) == IF c \in DOMAIN HexDigitValues THEN HexDigitValues[c] ELSE -1

RECURSIVE BufferFromHex(_)
\* Buffer.from(s, 'hex'): the bytes of the leading pairs of hexadecimal
\* digits; decoding stops at the first pair that is not one
BufferFromHex(s) ==
    IF Len(s) < 2 THEN <<>>
    ELSE LET hi == HexDigitValue(s[1])
             lo == HexDigitValue(s[2])
         IN IF hi < 0 \/ lo < 0 THEN <<>>
            ELSE <<hi * 16 + lo>> \o BufferFromHex(SubSeq(s, 3, Len(s)))

CharCode(c) == CHOOSE k \in 1..24 :
    \/ (k <= 16 /\ HexChars[k] = c)
    \/ (k > 16 /\ k <= 22 /\ UpperHexChars[k - 16] = c)
    \/ (k = 23 /\ c = "g")
    \/ (k = 24 /\ c = ".")

RECURSIVE StrCode(_)
StrCode(s) ==
    IF s = <<>> THEN 0
    ELSE (StrCode(SubSeq(s, 1, Len(s) - 1)) * 29 + CharCode(s[Len(s)])) % 65521

RECURSIVE Pow16(_)
Pow16(k) == IF k = 0 THEN 1 ELSE 16 * Pow16(k - 1)

\* crypto.createHmac('sha256', secret).update(msg).digest('hex'): a fixed
\* function of key and message, here TokenBytes bytes long
Hmac(secret, msg) ==
    HexStr((StrCode(secret) * 211 + StrCode(msg) * 17 + 5) % Pow16(2 * TokenBytes),
           2 * TokenBytes)

RECURSIVE Split(_, _)
\* s.split(sep): the segments of s between the separators
Split(s, sep) ==
    IF \E i \in 1..Len(s) : s[i] = sep
    THEN LET i == CHOOSE j \in 1..Len(s) :
                    s[j] = sep /\ \A k \in 1..(j - 1) : s[k] # sep
         IN <<SubSeq(s, 1, i - 1)>> \o Split(SubSeq(s, i + 1, Len(s)), sep)
    ELSE <<s>>

\* crypto.timingSafeEqual(a, b): throws when the byte lengths differ
timingSafeEqual(a, b) ==
    IF Len(a) # Len(b) THEN "throws" ELSE IF a = b THEN "true" ELSE "false"

(***************************************************************************)
(* CSRF token service                                                      *)
(***************************************************************************)
CSRF_TOKEN_NAME == "csrf-token"
CSRF_SECRET_NAME == "csrf-secret"

\* generateToken(): the k-th value drawn from crypto.randomBytes; distinct
\* draws give distinct values
generateToken(k) == HexStr(k, 2 * TokenBytes)

\* A generateCSRFToken that draws a new key on every call but stores it only
\* when none is stored.
generateCSRFTokenFreshKey(jar, g, t) ==
    LET stored == CookieValue(jar, CSRF_SECRET_NAME, t)
        secret == generateToken(g + 1)
        jar1 == IF stored = <<>>
                THEN CookieSet(jar, CSRF_SECRET_NAME, secret, 60 * 60 * 24, t)
                ELSE jar
        token == generateToken(g + 2)
        csrfToken == token \o <<".">> \o Hmac(secret, token)
    IN [ret |-> csrfToken, generated |-> g + 2,
        cookies |-> CookieSet(jar1, CSRF_TOKEN_NAME, csrfToken, 60 * 60, t)]

\* A generateCSRFToken that leaves a stored token cookie in place.
generateCSRFTokenKeepsOldToken(jar, g, t) ==
    LET stored == CookieValue(jar, CSRF_SECRET_NAME, t)
        fresh == stored = <<>>
        secret == IF fresh THEN generateToken(g + 1) ELSE stored
        g1 == IF fresh THEN g + 1 ELSE g
        jar1 == IF fresh
                THEN CookieSet(jar, CSRF_SECRET_NAME, secret, 60 * 60 * 24, t)
                ELSE jar
        token == generateToken(g1 + 1)
        csrfToken == token \o <<".">> \o Hmac(secret, token)
    IN [ret |-> csrfToken, generated |-> g1 + 1,
        cookies |-> IF CookieValue(jar1, CSRF_TOKEN_NAME, t) = <<>>
                    THEN CookieSet(jar1, CSRF_TOKEN_NAME, csrfToken, 60 * 60, t)
                    ELSE jar1]

\* A generateCSRFToken that stores the secret anew, with a new lifetime, on
\* every call.
generateCSRFTokenRenewsSecret(jar, g, t) ==
    LET stored == CookieValue(jar, CSRF_SECRET_NAME, t)
        fresh == stored = <<>>
        secret == IF fresh THEN generateToken(g + 1) ELSE stored
        g1 == IF fresh THEN g + 1 ELSE g
        jar1 == CookieSet(jar, CSRF_SECRET_NAME, secret, 60 * 60 * 24, t)
        token == generateToken(g1 + 1)
        csrfToken == token \o <<".">> \o Hmac(secret, token)
    IN [ret |-> csrfToken, generated |-> g1 + 1,
        cookies |-> CookieSet(jar1, CSRF_TOKEN_NAME, csrfToken, 60 * 60, t)]

\* A generateCSRFToken that gives the token cookie the secret's lifetime.
generateCSRFTokenDayLongToken(jar, g, t) ==
    LET stored == CookieValue(jar, CSRF_SECRET_NAME, t)
        fresh == stored = <<>>
        secret == IF fresh THEN generateToken(g + 1) ELSE stored
        g1 == IF fresh THEN g + 1 ELSE g
        jar1 == IF fresh
                THEN CookieSet(jar, CSRF_SECRET_NAME, secret, 60 * 60 * 24, t)
                ELSE jar
        token == generateToken(g1 + 1)
        csrfToken == token \o <<".">> \o Hmac(secret, token)
    IN [ret |-> csrfToken, generated |-> g1 + 1,
        cookies |-> CookieSet(jar1, CSRF_TOKEN_NAME, csrfToken, 60 * 60 * 24, t)]

\* generateCSRFToken(): the returned token, the jar and the number of random
\* values drawn afterwards
generateCSRFToken(jar, g, t) ==
    LET stored == CookieValue(jar, CSRF_SECRET_NAME, t)
        fresh == stored = <<>>
        secret == IF fresh THEN generateToken(g + 1) ELSE stored
        g1 == IF fresh THEN g + 1 ELSE g
        jar1 == IF fresh
                THEN CookieSet(jar, CSRF_SECRET_NAME, secret, 60 * 60 * 24, t)
                ELSE jar
        token == generateToken(g1 + 1)
        signature == Hmac(secret, token)
        csrfToken == token \o <<".">> \o signature
    IN [ret |-> csrfToken, generated |-> g1 + 1,
        cookies |-> CookieSet(jar1, CSRF_TOKEN_NAME, csrfToken, 60 * 60, t)]

\* The body of validateCSRFToken's try block: "true", "false" or "throws".
validateCSRFTokenTry(jar, token, t) ==
    LET storedToken == CookieValue(jar, CSRF_TOKEN_NAME, t)
        secret == CookieValue(jar, CSRF_SECRET_NAME, t)
    IN IF storedToken = <<>> \/ secret = <<>> \/ token = <<>> THEN "false"
       ELSE IF token # storedToken THEN "false"
       ELSE LET parts == Split(token, ".")
                tokenPart == parts[1]
                signature == IF Len(parts) >= 2 THEN parts[2] ELSE <<>>
            IN IF tokenPart = <<>> \/ signature = <<>> THEN "false"
               ELSE timingSafeEqual(BufferFromHex(signature),
                                    BufferFromHex(Hmac(secret, tokenPart)))

\* A validateCSRFToken that verifies the signature only, without comparing
\* the candidate with the stored token.
validateCSRFTokenSignatureOnly(jar, token, t) ==
    LET storedToken == CookieValue(jar, CSRF_TOKEN_NAME, t)
        secret == CookieValue(jar, CSRF_SECRET_NAME, t)
    IN IF storedToken = <<>> \/ secret = <<>> \/ token = <<>> THEN FALSE
       ELSE LET parts == Split(token, ".")
                tokenPart == parts[1]
                signature == IF Len(parts) >= 2 THEN parts[2] ELSE <<>>
            IN IF tokenPart = <<>> \/ signature = <<>> THEN FALSE
               ELSE timingSafeEqual(BufferFromHex(signature),
                                    BufferFromHex(Hmac(secret, tokenPart))) = "true"

\* validateCSRFToken(token): an exception is caught and gives false
validateCSRFToken(jar, token, t) == validateCSRFTokenTry(jar, token, t) = "true"

\* clearCSRFTokens()
clearCSRFTokens(jar) ==
    CookieDelete(CookieDelete(jar, CSRF_TOKEN_NAME), CSRF_SECRET_NAME)

(***************************************************************************)
(* Candidate strings a client may submit.                                  *)
(***************************************************************************)
Range(f) == {f[i] : i \in DOMAIN f}

\* the position of the first separator of s, 0 when there is none
SeparatorAt(s) ==
    IF \E i \in 1..Len(s) : s[i] = "."
    THEN CHOOSE i \in 1..Len(s) : s[i] = "." /\ \A k \in 1..(i - 1) : s[k] # "."
    ELSE 0

UpperCase(c) == IF HexDigitValue(c) >= 10 THEN UpperHexChars[HexDigitValue(c) - 9] ELSE c

\* s with exactly one character of the part after the separator changed
SignatureMutations(s) ==
    IF SeparatorAt(s) = 0 THEN {}
    ELSE {[s EXCEPT ![i] = c] :
            i \in (SeparatorAt(s) + 1)..Len(s),
            c \in Alphabet \cup {UpperCase(s[j]) : j \in 1..Len(s)}} \ {s}

\* s with exactly one character changed, anywhere
Mutations(s) ==
    {[s EXCEPT ![i] = c] :
        i \in 1..Len(s),
        c \in Alphabet \cup {UpperCase(s[j]) : j \in 1..Len(s)}} \ {s}

StoredToken == cookies[CSRF_TOKEN_NAME].value

\* the candidates drawn by the model's validation requests
ValidateInputs ==
    {<<>>} \cup Range(issued)
        \cup IF StoredToken = <<>> THEN {}
             ELSE {[StoredToken EXCEPT ![Len(StoredToken)] = c] :
                     c \in {"g", "0", "1",
                            UpperCase(StoredToken[Len(StoredToken)])}}

\* every candidate the invariants range over
Candidates ==
    {<<>>} \cup Range(issued) \cup Mutations(StoredToken)
        \cup {StoredToken \o <<".">> \o <<c>> : c \in {"0", "g"}}

(***************************************************************************)
(* Actions of the CSRF token service                                       *)
(***************************************************************************)
\* The clock moves by one or by twenty-three hours: csrf.ts never reads it,
\* time acts only through the cookies' lifetimes of 1 h and 24 h.
CsrfSteps == {60 * 60 * 1000, 23 * 60 * 60 * 1000}

CsrfTick(d) ==
    /\ steps < MaxCsrfTicks
    /\ steps' = steps + 1
    /\ now' = now + d
    /\ lastOp' = NoOp
    /\ UNCHANGED <<authVars, limVars, cookies, honoursTTL, compVars, csrfVars, sessVars>>

GenerateCSRFToken ==
    LET r == generateCSRFToken(cookies, generated, now) IN
    /\ generated + 2 <= MaxGenerated
    /\ cookies' = r.cookies
    /\ generated' = r.generated
    /\ issued' = Append(issued, r.ret)
    /\ lastOp' = [op |-> "generateCSRFToken", arg |-> r.ret,
                  pre |-> IF CookieValue(cookies, CSRF_SECRET_NAME, now) = <<>>
                          THEN "no secret" ELSE "secret",
                  ret |-> FALSE]
    /\ UNCHANGED <<authVars, now, limVars, honoursTTL, compVars, steps, sessVars>>

ValidateCSRFToken(token) ==
    /\ lastOp' = [op |-> "validateCSRFToken", arg |-> token,
                  pre |-> IF lastOp.op = "generateCSRFToken" /\ lastOp.arg = token
                          THEN "just issued" ELSE "other",
                  ret |-> validateCSRFToken(cookies, token, now)]
    /\ UNCHANGED <<authVars, now, limVars, jarVars, compVars, csrfVars, sessVars>>

ClearCSRFTokens ==
    /\ cookies' = clearCSRFTokens(cookies)
    /\ lastOp' = [op |-> "clearCSRFTokens", arg |-> "", pre |-> "",
                  ret |-> FALSE]
    /\ UNCHANGED <<authVars, now, limVars, honoursTTL, compVars, steps, csrfVars, sessVars>>

CsrfInit ==
    /\ now = 0
    /\ LimiterIdle
    /\ cookies = [n \in CookieNames |-> NoCookie]
    /\ honoursTTL = TRUE
    /\ steps = 0
    /\ generated = 0
    /\ issued = <<>>
    /\ session = FALSE
    /\ track = NoTrack
    /\ requests = [s \in Slots |-> NoRequest]
    /\ parked = GeneralIdle
    /\ provider = NoProvider
    /\ lastOp = NoOp

CsrfNext ==
    \/ \E d \in CsrfSteps : CsrfTick(d)
    \/ GenerateCSRFToken
    \/ \E token \in ValidateInputs : ValidateCSRFToken(token)
    \/ ClearCSRFTokens

SpecCsrf == CsrfInit /\ [][CsrfNext]_vars

(***************************************************************************)
(* C4: for every cookie state, validateToken(t) is true when t is the      *)
(* value generateCSRFToken has just returned and nothing happened since.   *)
(***************************************************************************)
C4_FreshTokenValidates ==
    /\ lastOp.op = "generateCSRFToken"
            => validateCSRFToken(cookies, lastOp.arg, now)
    /\ (lastOp.op = "validateCSRFToken" /\ lastOp.pre = "just issued")
            => lastOp.ret

\* validateCSRFToken accepted the token just issued under a secret that was
\* already stored, with an earlier token in the jar before it.
C4_Witness ==
    /\ lastOp.op = "validateCSRFToken"
    /\ lastOp.pre = "just issued"
    /\ lastOp.ret
    /\ Len(issued) >= 2
    /\ cookies[CSRF_SECRET_NAME].value = generateToken(1)

(***************************************************************************)
(* C5: in every reachable state at most one candidate validates, and it is *)
(* the token returned by the most recent generateCSRFToken; every token    *)
(* returned by an earlier call is rejected.                                *)
(***************************************************************************)
C5_OnlyLatestTokenValidates ==
    /\ \A c \in Candidates :
            validateCSRFToken(cookies, c, now)
                => (issued # <<>> /\ c = issued[Len(issued)])
    /\ \A i \in 1..(Len(issued) - 1) : ~validateCSRFToken(cookies, issued[i], now)

\* An earlier token, signed under the secret still stored, was submitted and
\* rejected while the latest token validates.
C5_Witness ==
    /\ Len(issued) >= 2
    /\ validateCSRFToken(cookies, issued[Len(issued)], now)
    /\ lastOp.op = "validateCSRFToken"
    /\ lastOp.arg = issued[Len(issued) - 1]
    /\ ~lastOp.ret
    /\ LET parts == Split(lastOp.arg, ".")
       IN parts[2] = Hmac(CookieValue(cookies, CSRF_SECRET_NAME, now), parts[1])

(***************************************************************************)
(* C6: for every token validateToken accepts, every string that differs    *)
(* from it in exactly one character of the signature part is rejected,     *)
(* with the result false.                                                  *)
(***************************************************************************)
C6_MutatedSignatureRejected ==
    \A c \in Candidates \cup {StoredToken} :
        validateCSRFToken(cookies, c, now)
            => \A m \in SignatureMutations(c) :
                    validateCSRFToken(cookies, m, now) = FALSE

\* A copy of the accepted token with one signature digit in the other case
\* (the same bytes once decoded) was submitted and rejected.
C6_Witness ==
    /\ validateCSRFToken(cookies, StoredToken, now)
    /\ lastOp.op = "validateCSRFToken"
    /\ lastOp.arg \in SignatureMutations(StoredToken)
    /\ BufferFromHex(Split(lastOp.arg, ".")[2])
            = BufferFromHex(Split(StoredToken, ".")[2])
    /\ ~lastOp.ret

(***************************************************************************)
(* Session guardian                                                        *)
(***************************************************************************)
SESSION_TIMEOUT_MS == 30 * 60 * 1000
SESSION_WARNING_MS == 5 * 60 * 1000
MAX_IDLE_TIME_MS == 60 * 60 * 1000
MAX_SESSION_AGE_MS == 24 * 60 * 60 * 1000

NaN == -1

RECURSIVE NumberToString(_)
\* n.toString() of an integer n >= 0: its decimal digits
NumberToString(n) ==
    IF n < 10 THEN <<HexChars[n + 1]>>
    ELSE Append(NumberToString(n \div 10), HexChars[(n % 10) + 1])

DecimalChars == {HexChars[i] : i \in 1..10}

IsDecimal(c) == c \in DecimalChars

RECURSIVE ParseDigits(_, _)
ParseDigits(s, acc) ==
    IF s = <<>> \/ ~IsDecimal(s[1]) THEN acc
    ELSE ParseDigits(SubSeq(s, 2, Len(s)), acc * 10 + HexDigitValue(s[1]))

\* parseInt(s): the value of the leading decimal digits, NaN when there is none
ParseInt(s) ==
    IF s = <<>> \/ ~IsDecimal(s[1]) THEN NaN ELSE ParseDigits(s, 0)

NoSession == [present |-> FALSE, lastActivity |-> 0, createdAt |-> 0]

\* getCurrentSession(): null without a provider session, else the provider
\* session with the two timestamps read from the cookies
getCurrentSession(sess, jar, t) ==
    IF ~sess THEN NoSession
    ELSE LET la == CookieValue(jar, "last-activity", t)
             cr == CookieValue(jar, "session-created", t)
         IN [present |-> TRUE,
             lastActivity |-> ParseInt(IF la = <<>> THEN <<"0">> ELSE la),
             createdAt |-> ParseInt(IF cr = <<>> THEN NumberToString(t) ELSE cr)]

\* updateSessionActivity(): the jar afterwards
updateSessionActivity(jar, t) ==
    LET jar1 == CookieSet(jar, "last-activity", NumberToString(t),
                          SESSION_TIMEOUT_MS \div 1000, t)
    IN IF CookieValue(jar1, "session-created", t) = <<>>
       THEN CookieSet(jar1, "session-created", NumberToString(t),
                      MAX_IDLE_TIME_MS \div 1000, t)
       ELSE jar1

\* A validateSession whose limits include the boundary instant.
validateSessionInclusive(sess, jar, t) ==
    LET s == getCurrentSession(sess, jar, t) IN
    IF ~s.present THEN [isValid |-> FALSE, reason |-> "No session found"]
    ELSE IF /\ s.lastActivity # 0
            /\ s.lastActivity # NaN
            /\ (t - s.lastActivity) >= MAX_IDLE_TIME_MS
         THEN [isValid |-> FALSE, reason |-> "Session expired due to inactivity"]
    ELSE IF s.createdAt # NaN /\ (t - s.createdAt) >= MAX_SESSION_AGE_MS
         THEN [isValid |-> FALSE, reason |-> "Session expired due to age"]
    ELSE [isValid |-> TRUE, reason |-> ""]

\* validateSession(): a comparison with NaN is false, 0 and NaN are falsy
validateSession(sess, jar, t) ==
    LET s == getCurrentSession(sess, jar, t) IN
    IF ~s.present THEN [isValid |-> FALSE, reason |-> "No session found"]
    ELSE IF /\ s.lastActivity # 0
            /\ s.lastActivity # NaN
            /\ (t - s.lastActivity) > MAX_IDLE_TIME_MS
         THEN [isValid |-> FALSE, reason |-> "Session expired due to inactivity"]
    ELSE IF s.createdAt # NaN /\ (t - s.createdAt) > MAX_SESSION_AGE_MS
         THEN [isValid |-> FALSE, reason |-> "Session expired due to age"]
    ELSE [isValid |-> TRUE, reason |-> ""]

\* A terminateSession that deletes the last-activity cookie alone.
terminateSessionKeepsCreated(sess, jar, t) ==
    [session |-> FALSE, cookies |-> CookieDelete(jar, "last-activity"),
     events |-> IF getCurrentSession(sess, jar, t).present THEN 1 ELSE 0]

\* A terminateSession that logs its security event whether or not it finds a
\* session.
terminateSessionAlwaysLogs(sess, jar, t) ==
    [session |-> FALSE,
     cookies |-> CookieDelete(CookieDelete(jar, "last-activity"), "session-created"),
     events |-> 1]

\* terminateSession(reason): the provider session and the jar afterwards,
\* and the number of security events logged
terminateSession(sess, jar, t) ==
    [session |-> FALSE,
     cookies |-> CookieDelete(CookieDelete(jar, "last-activity"), "session-created"),
     events |-> IF getCurrentSession(sess, jar, t).present THEN 1 ELSE 0]

\* An extendSession that reports an invalid session without terminating it.
extendSessionWithoutTerminate(sess, jar, t) ==
    IF ~validateSession(sess, jar, t).isValid
    THEN [ret |-> FALSE, session |-> sess, cookies |-> jar]
    ELSE [ret |-> TRUE, session |-> sess, cookies |-> updateSessionActivity(jar, t)]

\* extendSession(): the result, the provider session and the jar afterwards
extendSession(sess, jar, t) ==
    LET validation == validateSession(sess, jar, t) IN
    IF ~validation.isValid
    THEN LET r == terminateSession(sess, jar, t)
         IN [ret |-> FALSE, session |-> r.session, cookies |-> r.cookies]
    ELSE [ret |-> TRUE, session |-> sess, cookies |-> updateSessionActivity(jar, t)]

\* getSessionTimeoutInfo(): null (present: FALSE) without a session or
\* without a last activity
getSessionTimeoutInfo(sess, jar, t) ==
    LET s == getCurrentSession(sess, jar, t) IN
    IF ~s.present \/ s.lastActivity = 0 \/ s.lastActivity = NaN
    THEN [present |-> FALSE, timeUntilWarning |-> 0, timeUntilTimeout |-> 0,
          shouldWarn |-> FALSE, shouldTimeout |-> FALSE]
    ELSE LET timeSinceActivity == t - s.lastActivity
             timeUntilWarning == SESSION_WARNING_MS - timeSinceActivity
             timeUntilTimeout == SESSION_TIMEOUT_MS - timeSinceActivity
         IN [present |-> TRUE,
             timeUntilWarning |-> timeUntilWarning,
             timeUntilTimeout |-> timeUntilTimeout,
             shouldWarn |-> (timeUntilWarning <= 0 /\ timeUntilTimeout > 0),
             shouldTimeout |-> (timeUntilTimeout <= 0)]

(***************************************************************************)
(* What a session operation finds when it starts: the provider session,    *)
(* the time since the stored last activity (-1: no such cookie is read),   *)
(* the time since the last and since the first updateSessionActivity of    *)
(* this provider session (-1: none), and whether every two consecutive     *)
(* ones, and the last one and now, are less than the idle limit apart.     *)
(***************************************************************************)
SessionPre ==
    [session |-> session,
     idle |-> IF CookieValue(cookies, "last-activity", now) = <<>> THEN -1
              ELSE now - ParseInt(CookieValue(cookies, "last-activity", now)),
     sinceTouch |-> IF track.lastTouchAt < 0 THEN -1 ELSE now - track.lastTouchAt,
     sinceFirst |-> IF track.firstTouchAt < 0 THEN -1 ELSE now - track.firstTouchAt,
     keptActive |-> /\ track.lastTouchAt >= 0
                    /\ track.gapOk
                    /\ now - track.lastTouchAt < MAX_IDLE_TIME_MS]

TrackAfterTouch(tr, t) ==
    [firstTouchAt |-> IF tr.firstTouchAt < 0 THEN t ELSE tr.firstTouchAt,
     lastTouchAt |-> t,
     gapOk |-> tr.gapOk /\ (tr.lastTouchAt < 0 \/ t - tr.lastTouchAt < MAX_IDLE_TIME_MS)]

(***************************************************************************)
(* Actions of the session guardian                                         *)
(***************************************************************************)
\* The identity provider opens a session (a completed sign-in).
ProviderSignIn ==
    /\ ~session
    /\ session' = TRUE
    /\ track' = NoTrack
    /\ lastOp' = [op |-> "signIn", arg |-> "", pre |-> SessionPre,
                  ret |-> FALSE]
    /\ UNCHANGED <<authVars, now, limVars, jarVars, compVars, csrfVars>>

\* logout(): supabase.auth.signOut()
Logout ==
    /\ session
    /\ session' = FALSE
    /\ lastOp' = [op |-> "logout", arg |-> "", pre |-> SessionPre,
                  ret |-> FALSE]
    /\ UNCHANGED <<authVars, now, limVars, jarVars, compVars, csrfVars, track>>

UpdateSessionActivity ==
    /\ cookies' = updateSessionActivity(cookies, now)
    /\ track' = IF session THEN TrackAfterTouch(track, now) ELSE track
    /\ lastOp' = [op |-> "updateSessionActivity", arg |-> "", pre |-> SessionPre,
                  ret |-> FALSE]
    /\ UNCHANGED <<authVars, now, limVars, honoursTTL, compVars, steps, csrfVars, session>>

ValidateSession ==
    LET v == validateSession(session, cookies, now) IN
    /\ lastOp' = [op |-> "validateSession", arg |-> v.reason, pre |-> SessionPre,
                  ret |-> v.isValid]
    /\ UNCHANGED <<authVars, now, limVars, jarVars, compVars, csrfVars, sessVars>>

TerminateSession ==
    LET r == terminateSession(session, cookies, now) IN
    /\ session' = r.session
    /\ cookies' = r.cookies
    /\ lastOp' = [op |-> "terminateSession", arg |-> "", pre |-> SessionPre,
                  ret |-> r.events]
    /\ UNCHANGED <<authVars, now, limVars, honoursTTL, compVars, steps, csrfVars, track>>

ExtendSession ==
    LET r == extendSession(session, cookies, now) IN
    /\ session' = r.session
    /\ cookies' = r.cookies
    /\ track' = IF r.ret THEN TrackAfterTouch(track, now) ELSE track
    /\ lastOp' = [op |-> "extendSession", arg |-> "", pre |-> SessionPre,
                  ret |-> r.ret]
    /\ UNCHANGED <<authVars, now, limVars, honoursTTL, compVars, steps, csrfVars>>

\* initializeSession(): updateSessionActivity() when there is a session
InitializeSession ==
    /\ cookies' = IF getCurrentSession(session, cookies, now).present
                  THEN updateSessionActivity(cookies, now) ELSE cookies
    /\ track' = IF session THEN TrackAfterTouch(track, now) ELSE track
    /\ lastOp' = [op |-> "initializeSession", arg |-> "", pre |-> SessionPre,
                  ret |-> FALSE]
    /\ UNCHANGED <<authVars, now, limVars, honoursTTL, compVars, steps, csrfVars, session>>

GetSessionTimeoutInfo ==
    LET i == getSessionTimeoutInfo(session, cookies, now) IN
    /\ lastOp' = [op |-> "getSessionTimeoutInfo",
                  arg |-> IF i.present THEN "info" ELSE "null",
                  pre |-> SessionPre, ret |-> i.shouldWarn]
    /\ UNCHANGED <<authVars, now, limVars, jarVars, compVars, csrfVars, sessVars>>

\* The steps of the session clock: one millisecond, and the distances
\* between the thresholds of 5, 25 (and with them 30) and 60 minutes.
SessionSteps == {1, SESSION_WARNING_MS, SESSION_TIMEOUT_MS - SESSION_WARNING_MS,
                 MAX_IDLE_TIME_MS}

SessionTick(d) ==
    /\ steps < MaxSessionTicks
    /\ steps' = steps + 1
    /\ now' = now + d
    /\ lastOp' = NoOp
    /\ UNCHANGED <<authVars, limVars, cookies, honoursTTL, compVars, csrfVars, sessVars>>

SessionInit ==
    /\ now = SessionEpoch
    /\ LimiterIdle
    /\ cookies = [n \in CookieNames |-> NoCookie]
    /\ honoursTTL \in BOOLEAN
    /\ steps = 0
    /\ generated = 0
    /\ issued = <<>>
    /\ session = FALSE
    /\ track = NoTrack
    /\ requests = [s \in Slots |-> NoRequest]
    /\ parked = GeneralIdle
    /\ provider = NoProvider
    /\ lastOp = NoOp

SessionNext ==
    \/ \E d \in SessionSteps : SessionTick(d)
    \/ ProviderSignIn
    \/ Logout
    \/ UpdateSessionActivity
    \/ ValidateSession
    \/ TerminateSession
    \/ ExtendSession
    \/ InitializeSession
    \/ GetSessionTimeoutInfo

SpecSession == SessionInit /\ [][SessionNext]_vars

(***************************************************************************)
(* A day-long run of one client that honours maxAge: after sign-in the     *)
(* session is kept active by an extendSession call every half hour, and    *)
(* validateSession is called at any of these instants.                     *)
(***************************************************************************)
DayTick ==
    /\ steps < MaxDayTicks
    /\ session => track.lastTouchAt = now
    /\ steps' = steps + 1
    /\ now' = now + SESSION_TIMEOUT_MS
    /\ lastOp' = NoOp
    /\ UNCHANGED <<authVars, limVars, cookies, honoursTTL, compVars, csrfVars, sessVars>>

DayInit ==
    /\ SessionInit
    /\ honoursTTL

DayNext ==
    \/ DayTick
    \/ ProviderSignIn
    \/ ExtendSession
    \/ ValidateSession

SpecSessionDay == DayInit /\ [][DayNext]_vars

C8_IdleSessionNeverValid ==
    (/\ honoursTTL
     /\ lastOp.op \in {"validateSession", "extendSession"}
     /\ lastOp.pre.session
     /\ lastOp.pre.sinceTouch > MAX_IDLE_TIME_MS)
        => /\ ~lastOp.ret
           /\ lastOp.op = "extendSession" =>
                /\ ~session
                /\ CookieValue(cookies, "last-activity", now) # NumberToString(now)

(***************************************************************************)
(* C9: with a client that drops each cookie when its maxAge runs out, for  *)
(* a session first touched at t0 and kept active by extend() calls less    *)
(* than the idle limit apart, validate() at every time later than          *)
(* t0 + 24 h is invalid with the age reason.                               *)
(***************************************************************************)
C9_AbsoluteLifetimeEnforced ==
    (/\ honoursTTL
     /\ lastOp.op = "validateSession"
     /\ lastOp.pre.session
     /\ lastOp.pre.keptActive
     /\ lastOp.pre.sinceFirst > MAX_SESSION_AGE_MS)
        => /\ ~lastOp.ret
           /\ lastOp.arg = "Session expired due to age"

(***************************************************************************)
(* C10: for every present session and every elapsed time d since the last  *)
(* activity, timeoutInfo().shouldWarn is true only if                      *)
(* timeout - warningWindow < d < timeout, and false outside that interval. *)
(***************************************************************************)
C10_WarnOnlyInWarningWindow ==
    (/\ lastOp.op = "getSessionTimeoutInfo"
     /\ lastOp.arg = "info"
     /\ lastOp.ret)
        => /\ SESSION_TIMEOUT_MS - SESSION_WARNING_MS < lastOp.pre.idle
           /\ lastOp.pre.idle < SESSION_TIMEOUT_MS

(***************************************************************************)
(* The advisory reads next to the operations whose state they read: the    *)
(* limiter in the direction of authRateLimiter (windows of 15 minutes,     *)
(* blocks of 30) and one client's session, on the session clock.           *)
(***************************************************************************)
AdvisoryInit ==
    /\ now = SessionEpoch
    /\ attempts = [id \in Ids |-> NoEntry]
    /\ maxAttempts = MaxConfigAttempts
    /\ windowMs = 15 * 60 * 1000
    /\ blockDurationMs = 30 * 60 * 1000
    /\ hist = [id \in Ids |-> NoHist]
    /\ cookies = [n \in CookieNames |-> NoCookie]
    /\ honoursTTL \in BOOLEAN
    /\ steps = 0
    /\ generated = 0
    /\ issued = <<>>
    /\ session = FALSE
    /\ track = NoTrack
    /\ requests = [s \in Slots |-> NoRequest]
    /\ parked = GeneralIdle
    /\ provider = NoProvider
    /\ lastOp = NoOp

\* The steps of the advisory clock: a second, and the thresholds 5 and 30
\* minutes of the session and 15 and 30 minutes of the limiter with it.
AdvisorySteps == {1000, SESSION_WARNING_MS, SESSION_TIMEOUT_MS}

AdvisoryTick(d) ==
    /\ steps < MaxAdvisoryTicks
    /\ steps' = steps + 1
    /\ now' = now + d
    /\ lastOp' = NoOp
    /\ UNCHANGED <<authVars, limVars, cookies, honoursTTL, compVars, csrfVars, sessVars>>

AdvisoryNext ==
    \/ \E d \in AdvisorySteps : AdvisoryTick(d)
    \/ RecordFailedAttempt("x")
    \/ \E id \in Ids : GetRemainingAttempts(id)
    \/ \E id \in Ids : GetResetTime(id)
    \/ ProviderSignIn
    \/ UpdateSessionActivity
    \/ GetSessionTimeoutInfo

SpecAdvisory == AdvisoryInit /\ [][AdvisoryNext]_vars

(***************************************************************************)
(* C13: the advisory reads change no state: remainingAttempts and          *)
(* resetSeconds leave the limiter's map unchanged for every identifier,    *)
(* also when the entry has expired; resetSeconds is always >= 0;           *)
(* timeoutInfo leaves the provider session and both activity cookies       *)
(* unchanged and never terminates a session.                               *)
(***************************************************************************)
C13_AdvisoryReadsChangeNothing ==
    [][/\ \A id \in Ids : getResetTime(attempts', id, now') >= 0
       /\ lastOp'.op = "getResetTime" => lastOp'.ret >= 0
       /\ lastOp'.op \in {"getRemainingAttempts", "getResetTime"}
            => attempts' = attempts
       /\ lastOp'.op = "getSessionTimeoutInfo"
            => /\ session' = session
               /\ cookies' = cookies
               /\ attempts' = attempts]_vars

\* resetSeconds was read for an entry expired for a second or more and gave
\* 0, timeoutInfo having been read for a present session before; the entry
\* is still in the map.
C13_Witness ==
    /\ lastOp.op = "getResetTime"
    /\ lastOp.pre = "expired"
    /\ lastOp.ret = 0
    /\ attempts[lastOp.arg].present
    /\ attempts[lastOp.arg].resetTime - now <= -1000
    /\ session
    /\ cookies["last-activity"].present

(***************************************************************************)
(* Authentication actions (app/lib/actions/auth-actions.ts) over           *)
(* authRateLimiter.  A request runs in two segments: up to the await of    *)
(* the identity provider's credential operation, and from its answer on;   *)
(* other requests may run in between.  The form data enter by what the     *)
(* validations make of them.  The history hist belongs to the runs of the  *)
(* limiter alone and is not kept here.                                     *)
(***************************************************************************)
LoginInputs == [email : {"ok", "invalid"}, password : {"ok", "empty"}]
RegisterInputs ==
    [email : {"ok", "invalid"}, password : {"ok", "weak"},
     name : {"ok", "bad length"}]
ProviderAnswers == {"ok", "error", "throws"}

\* A login that goes on to the credential operation without consulting the
\* limiter.
loginStartUnlimited(m, id, t, input) ==
    IF input.email # "ok"
    THEN [attempts |-> m, outcome |-> "Please enter a valid email address"]
    ELSE IF input.password # "ok"
    THEN [attempts |-> m, outcome |-> "Password is required"]
    ELSE [attempts |-> m, outcome |-> "verify"]

\* login(data) up to the call of signInWithPassword: the map afterwards and
\* the error returned, "verify" when the call is made
loginStart(m, id, t, input) ==
    LET r == isRateLimited(m, id, t) IN
    IF r.ret THEN [attempts |-> r.attempts, outcome |-> "Too many login attempts"]
    ELSE IF input.email # "ok"
    THEN [attempts |-> r.attempts, outcome |-> "Please enter a valid email address"]
    ELSE IF input.password # "ok"
    THEN [attempts |-> r.attempts, outcome |-> "Password is required"]
    ELSE [attempts |-> r.attempts, outcome |-> "verify"]

\* A login that records the failure of a throwing credential operation twice.
loginAnsweredTwiceOnThrow(m, id, t, answer) ==
    IF answer = "ok"
    THEN [attempts |-> recordSuccessfulAttempt(m, id), outcome |-> "null"]
    ELSE IF answer = "error"
    THEN [attempts |-> recordFailedAttempt(m, id, t),
          outcome |-> "Invalid email or password"]
    ELSE [attempts |-> recordFailedAttempt(recordFailedAttempt(m, id, t), id, t),
          outcome |-> "Login failed. Please try again."]

\* login(data) from the answer of signInWithPassword on
loginAnswered(m, id, t, answer) ==
    IF answer = "error"
    THEN [attempts |-> recordFailedAttempt(m, id, t),
          outcome |-> "Invalid email or password"]
    ELSE IF answer = "ok"
    THEN [attempts |-> recordSuccessfulAttempt(m, id), outcome |-> "null"]
    ELSE [attempts |-> recordFailedAttempt(m, id, t),
          outcome |-> "Login failed. Please try again."]

\* register(data) up to the call of signUp
registerStart(m, id, t, input) ==
    LET r == isRateLimited(m, id, t) IN
    IF r.ret
    THEN [attempts |-> r.attempts, outcome |-> "Too many registration attempts"]
    ELSE IF input.email # "ok"
    THEN [attempts |-> r.attempts, outcome |-> "Please enter a valid email address"]
    ELSE IF input.password # "ok"
    THEN [attempts |-> r.attempts, outcome |-> "Password too weak"]
    ELSE IF input.name # "ok"
    THEN [attempts |-> r.attempts,
          outcome |-> "Name must be between 2 and 50 characters"]
    ELSE [attempts |-> r.attempts, outcome |-> "verify"]

\* register(data) from the answer of signUp on
registerAnswered(m, id, t, answer) ==
    IF answer = "error"
    THEN [attempts |-> recordFailedAttempt(m, id, t),
          outcome |-> "Registration failed or account exists"]
    ELSE IF answer = "ok"
    THEN [attempts |-> recordSuccessfulAttempt(m, id), outcome |-> "null"]
    ELSE [attempts |-> recordFailedAttempt(m, id, t),
          outcome |-> "Registration failed. Please try again."]

RateLimitErrors == {"Too many login attempts", "Too many registration attempts"}
ValidationErrors ==
    {"Please enter a valid email address", "Password is required",
     "Password too weak", "Name must be between 2 and 50 characters"}

\* The first segment of a request, in the first free slot s: it returns, or
\* it calls the credential operation and waits for the answer.
Started(s, kind, id, r) ==
    /\ requests[s].stage = "idle"
    /\ \A other \in 1..(s - 1) : requests[other].stage # "idle"
    /\ attempts' = r.attempts
    /\ requests' = [requests EXCEPT ![s] =
            IF r.outcome = "verify"
            THEN [stage |-> "verifying", kind |-> kind, id |-> id]
            ELSE NoRequest]
    /\ lastOp' = [op |-> kind, arg |-> id, pre |-> EntryKind(attempts, id, now),
                  ret |-> [outcome |-> r.outcome,
                           calls |-> IF r.outcome = "verify" THEN 1 ELSE 0,
                           failures |-> 0, successes |-> 0]]
    /\ UNCHANGED <<now, maxAttempts, windowMs, blockDurationMs, hist,
                   jarVars, compVars, csrfVars, sessVars>>

Login(s, id, input) == Started(s, "login", id, loginStart(attempts, id, now, input))

Register(s, id, input) ==
    Started(s, "register", id, registerStart(attempts, id, now, input))

\* The second segment: the provider has answered the request in slot s.
Answered(s, answer, r) ==
    LET id == requests[s].id IN
    /\ attempts' = r.attempts
    /\ requests' = [requests EXCEPT ![s] = NoRequest]
    /\ lastOp' = [op |-> requests[s].kind \o " answered", arg |-> id,
                  pre |-> EntryKind(attempts, id, now),
                  ret |-> [outcome |-> r.outcome, calls |-> 1,
                           failures |-> IF answer = "ok" THEN 0 ELSE 1,
                           successes |-> IF answer = "ok" THEN 1 ELSE 0]]
    /\ UNCHANGED <<now, maxAttempts, windowMs, blockDurationMs, hist,
                   jarVars, compVars, csrfVars>>

LoginAnswered(s, answer) ==
    /\ requests[s].stage = "verifying"
    /\ requests[s].kind = "login"
    /\ Answered(s, answer, loginAnswered(attempts, requests[s].id, now, answer))
    /\ session' = (session \/ answer = "ok")
    /\ track' = IF answer = "ok" /\ ~session THEN NoTrack ELSE track

RegisterAnswered(s, answer) ==
    /\ requests[s].stage = "verifying"
    /\ requests[s].kind = "register"
    /\ Answered(s, answer, registerAnswered(attempts, requests[s].id, now, answer))
    /\ UNCHANGED sessVars

AuthTick ==
    /\ now < MaxAuthTime
    /\ now' = now + 1
    /\ lastOp' = NoOp
    /\ UNCHANGED <<limVars, jarVars, compVars, csrfVars, sessVars, authVars>>

\* authRateLimiter with its numbers scaled down: the block after the second
\* failure, a window of 1 ms, a block of 2 ms
AuthInit ==
    /\ now = 0
    /\ attempts = [id \in Ids |-> NoEntry]
    /\ maxAttempts = 2
    /\ windowMs = 1
    /\ blockDurationMs = 2
    /\ hist = [id \in Ids |-> NoHist]
    /\ OthersIdle
    /\ lastOp = NoOp

AuthNext ==
    \/ AuthTick
    \/ \E s \in Slots, id \in Ids, input \in LoginInputs : Login(s, id, input)
    \/ \E s \in Slots, id \in Ids, input \in RegisterInputs : Register(s, id, input)
    \/ \E s \in Slots, answer \in ProviderAnswers : LoginAnswered(s, answer)
    \/ \E s \in Slots, answer \in ProviderAnswers : RegisterAnswered(s, answer)

SpecAuth == AuthInit /\ [][AuthNext]_vars

C15_AnsweredOnce(id) ==
    /\ \E s \in Slots : requests[s].stage = "verifying" /\ requests[s].id = id
    /\ lastOp'.ret.calls = 1
    /\ lastOp'.ret.failures + lastOp'.ret.successes = 1
    /\ IF lastOp'.ret.outcome = "null"
       THEN /\ lastOp'.ret.successes = 1
            /\ attempts' = [attempts EXCEPT ![id] = NoEntry]
       ELSE /\ lastOp'.ret.failures = 1
            /\ attempts' = recordFailedAttempt(attempts, id, now)

NoncePart(s) == SubSeq(s, 1, SeparatorAt(s) - 1)
SignaturePart(s) == SubSeq(s, SeparatorAt(s) + 1, Len(s))

\* the strings a client makes of a token nonce.signature: the separator
\* dropped, the nonce or the signature emptied, the signature shortened by a
\* digit or a byte, lengthened by a byte, by a digit, by a character that is
\* no digit
ForgedTokens(s) ==
    IF SeparatorAt(s) = 0 THEN {}
    ELSE LET n == NoncePart(s)
             g == SignaturePart(s)
         IN {n \o g, <<".">> \o g, n \o <<".">>,
             n \o <<".">> \o SubSeq(g, 1, Len(g) - 1),
             n \o <<".">> \o SubSeq(g, 1, Len(g) - 2),
             s \o <<"0", "0">>, s \o <<"0">>, s \o <<"g">>}

\* The client replaces the value of its token cookie.
ClientSetsToken(v) ==
    /\ cookies[CSRF_TOKEN_NAME].present
    /\ cookies' = [cookies EXCEPT ![CSRF_TOKEN_NAME].value = v]
    /\ lastOp' = [op |-> "clientSetsToken", arg |-> v, pre |-> "", ret |-> FALSE]
    /\ UNCHANGED <<authVars, now, limVars, honoursTTL, compVars, steps, csrfVars, sessVars>>

\* The client removes one of its cookies.
ClientDropsCookie(name) ==
    /\ cookies[name].present
    /\ cookies' = CookieDelete(cookies, name)
    /\ lastOp' = [op |-> "clientDropsCookie", arg |-> name, pre |-> "",
                  ret |-> FALSE]
    /\ UNCHANGED <<authVars, now, limVars, honoursTTL, compVars, steps, csrfVars, sessVars>>

\* the candidates of the validation requests of such a client
ForgedInputs ==
    {<<>>, StoredToken} \cup Range(issued)
        \cup UNION {ForgedTokens(issued[i]) : i \in DOMAIN issued}

ForgedNext ==
    \/ GenerateCSRFToken
    \/ \E v \in UNION {ForgedTokens(issued[i]) : i \in DOMAIN issued} :
            ClientSetsToken(v)
    \/ \E name \in {CSRF_TOKEN_NAME, CSRF_SECRET_NAME} : ClientDropsCookie(name)
    \/ \E token \in ForgedInputs : ValidateCSRFToken(token)

SpecCsrfForged == CsrfInit /\ [][ForgedNext]_vars

\* the cases in which validateToken is to fail closed, but for the length of
\* the signature
C16_Rejectable(c) ==
    LET stored == CookieValue(cookies, CSRF_TOKEN_NAME, now)
        secret == CookieValue(cookies, CSRF_SECRET_NAME, now)
    IN \/ c = <<>>
       \/ stored = <<>>
       \/ secret = <<>>
       \/ c # stored
       \/ SeparatorAt(c) = 0
       \/ NoncePart(c) = <<>>
       \/ SignaturePart(c) = <<>>

(***************************************************************************)
(* C16: validateToken fails closed: it returns false, and never throws,    *)
(* when the candidate is missing or empty, when the stored token or the    *)
(* secret cookie is missing, when the candidate differs from the stored    *)
(* token, when it has no separator or an empty nonce or signature part,    *)
(* and when the signature has a different length than the expected one.    *)
(***************************************************************************)
C16_FailsClosed ==
    \A c \in ForgedInputs :
        (\/ C16_Rejectable(c)
         \/ Len(SignaturePart(c)) # 2 * TokenBytes)
            => /\ validateCSRFTokenTry(cookies, c, now) \in {"false", "throws"}
               /\ validateCSRFToken(cookies, c, now) = FALSE

\* The same with the length taken of the bytes that Buffer.from decodes
\* from the signature: in these cases validateToken does return false.
C16_FailsClosedOnDecodedLength ==
    \A c \in ForgedInputs :
        (\/ C16_Rejectable(c)
         \/ Len(BufferFromHex(SignaturePart(c))) # TokenBytes)
            => /\ validateCSRFTokenTry(cookies, c, now) \in {"false", "throws"}
               /\ validateCSRFToken(cookies, c, now) = FALSE

\* A candidate equal to the token cookie, its signature one digit longer
\* than a digest, was submitted and accepted.
C16_LongerSignatureAccepted ==
    /\ lastOp.op = "validateCSRFToken"
    /\ lastOp.ret
    /\ Len(SignaturePart(lastOp.arg)) = 2 * TokenBytes + 1

(***************************************************************************)
(* The CSRF token service of a client that signs in and logs out.          *)
(***************************************************************************)
CsrfLogoutNext ==
    \/ \E d \in CsrfSteps : CsrfTick(d)
    \/ GenerateCSRFToken
    \/ \E token \in ValidateInputs : ValidateCSRFToken(token)
    \/ ClearCSRFTokens
    \/ ProviderSignIn
    \/ Logout

SpecCsrfLogout == CsrfInit /\ [][CsrfLogoutNext]_vars

C17_PairDestroyed ==
    /\ CookieValue(cookies, CSRF_TOKEN_NAME, now) = <<>>
    /\ CookieValue(cookies, CSRF_SECRET_NAME, now) = <<>>
    /\ ~cookies[CSRF_TOKEN_NAME].present
    /\ ~cookies[CSRF_SECRET_NAME].present
    /\ \A c \in Candidates \cup Range(issued) : ~validateCSRFToken(cookies, c, now)

(***************************************************************************)
(* C17: the CSRF token pair is destroyed on logout or explicit clear:      *)
(* after clearTokens(), and after logout(), both cookies are absent and    *)
(* validateToken returns false for every candidate, the previously valid   *)
(* token included, until the next issueToken().                            *)
(***************************************************************************)
C17_DestroyedOnLogoutOrClear ==
    lastOp.op \in {"clearCSRFTokens", "logout"} => C17_PairDestroyed

\* The part of it that is about clearTokens() alone, which holds.
C17_DestroyedOnClear ==
    lastOp.op = "clearCSRFTokens" => C17_PairDestroyed

\* logout() has run and the token issued before it still validates.
C17_TokenSurvivesLogout ==
    /\ lastOp.op = "logout"
    /\ ~session
    /\ issued # <<>>
    /\ validateCSRFToken(cookies, issued[Len(issued)], now)

(***************************************************************************)
(* C18: issueToken creates and stores a secret only when none is stored:   *)
(* when a secret cookie is present it leaves the secret's value and expiry *)
(* unchanged and replaces only the current token; the returned token has   *)
(* the form nonce + "." + HMAC(secret, nonce) for the stored secret.       *)
(***************************************************************************)
C18_SecretCreatedOnce ==
    [][lastOp'.op = "generateCSRFToken" =>
        LET had == CookieValue(cookies, CSRF_SECRET_NAME, now) # <<>>
            token == lastOp'.arg
            secret == CookieValue(cookies', CSRF_SECRET_NAME, now')
        IN /\ had => cookies'[CSRF_SECRET_NAME] = cookies[CSRF_SECRET_NAME]
           /\ ~had => /\ secret # <<>>
                      /\ secret \notin {cookies[n].value : n \in CookieNames}
                      /\ cookies'[CSRF_SECRET_NAME].expires
                            = now + 24 * 60 * 60 * 1000
           /\ \A n \in CookieNames \ {CSRF_SECRET_NAME, CSRF_TOKEN_NAME} :
                    cookies'[n] = cookies[n]
           /\ CookieValue(cookies', CSRF_TOKEN_NAME, now') = token
           /\ SeparatorAt(token) > 0
           /\ NoncePart(token) # <<>>
           /\ SignaturePart(token) = Hmac(secret, NoncePart(token))]_vars

\* issueToken ran, hours after the secret was stored, and the secret cookie
\* still has the expiry of its creation.
C18_Witness ==
    /\ lastOp.op = "generateCSRFToken"
    /\ lastOp.pre = "secret"
    /\ Len(issued) >= 2
    /\ cookies[CSRF_SECRET_NAME].value = generateToken(1)
    /\ cookies[CSRF_SECRET_NAME].expires = 24 * 60 * 60 * 1000
    /\ now > 0
    /\ cookies[CSRF_TOKEN_NAME].value = issued[Len(issued)]

(***************************************************************************)
(* The session guardian on stored timestamps of any age: the client        *)
(* presents a last-activity and a session-created cookie written so long   *)
(* ago (by a client that keeps them), with or without a provider session.  *)
(***************************************************************************)
StoredAges == {0, MAX_IDLE_TIME_MS - 1, MAX_IDLE_TIME_MS,
               MAX_SESSION_AGE_MS - 1, MAX_SESSION_AGE_MS}

StoredInit ==
    /\ now = SessionEpoch
    /\ LimiterIdle
    /\ \E a \in StoredAges, c \in StoredAges :
        /\ a <= c
        /\ cookies = [n \in CookieNames |->
                IF n = "last-activity"
                THEN [present |-> TRUE, value |-> NumberToString(now - a),
                      expires |-> now - a + SESSION_TIMEOUT_MS]
                ELSE IF n = "session-created"
                THEN [present |-> TRUE, value |-> NumberToString(now - c),
                      expires |-> now - c + MAX_IDLE_TIME_MS]
                ELSE NoCookie]
        /\ session \in BOOLEAN
        /\ track = IF session
                   THEN [firstTouchAt |-> now - c, lastTouchAt |-> now - a,
                         gapOk |-> FALSE]
                   ELSE NoTrack
    /\ honoursTTL = FALSE
    /\ steps = 0
    /\ generated = 0
    /\ issued = <<>>
    /\ requests = [s \in Slots |-> NoRequest]
    /\ parked = GeneralIdle
    /\ provider = NoProvider
    /\ lastOp = NoOp

StoredTick ==
    /\ steps < MaxStoredTicks
    /\ steps' = steps + 1
    /\ now' = now + 1
    /\ lastOp' = NoOp
    /\ UNCHANGED <<authVars, limVars, cookies, honoursTTL, compVars, csrfVars, sessVars>>

StoredNext ==
    \/ StoredTick
    \/ ProviderSignIn
    \/ ValidateSession
    \/ ExtendSession
    \/ GetSessionTimeoutInfo

SpecStored == StoredInit /\ [][StoredNext]_vars

\* the timestamps stored in the two cookies
StoredLastActivityAt == ParseInt(cookies["last-activity"].value)
StoredCreatedAt == ParseInt(cookies["session-created"].value)

(***************************************************************************)
(* C19: validate() equals the reference for every provider-session state   *)
(* and every pair of stored timestamps: no session -> invalid;             *)
(* now - lastActivityAt > maxIdle -> invalid with the idle reason;         *)
(* now - createdAt > maxAbsoluteLifetime -> invalid with the age reason;   *)
(* otherwise valid, also at exactly maxIdle and maxAbsoluteLifetime.       *)
(***************************************************************************)
C19_ValidateMatchesReference ==
    LET v == validateSession(session, cookies, now) IN
    /\ ~session => v = [isValid |-> FALSE, reason |-> "No session found"]
    /\ (/\ session
        /\ CookieVisible(cookies, "last-activity", now)
        /\ CookieVisible(cookies, "session-created", now))
        => v = IF now - StoredLastActivityAt > 60 * 60 * 1000
               THEN [isValid |-> FALSE,
                     reason |-> "Session expired due to inactivity"]
               ELSE IF now - StoredCreatedAt > 24 * 60 * 60 * 1000
               THEN [isValid |-> FALSE, reason |-> "Session expired due to age"]
               ELSE [isValid |-> TRUE, reason |-> ""]

\* validate() was called exactly maxIdle after the stored last activity and
\* exactly 24 h after the stored creation, and reported the session valid.
C19_Witness ==
    /\ lastOp.op = "validateSession"
    /\ lastOp.ret
    /\ session
    /\ now - StoredLastActivityAt = MAX_IDLE_TIME_MS
    /\ now - StoredCreatedAt = MAX_SESSION_AGE_MS

C22_TouchStep(idleLifetime, absoluteLifetime) ==
    lastOp'.op = "updateSessionActivity" =>
        /\ cookies'["last-activity"] =
               [present |-> TRUE, value |-> NumberToString(now),
                expires |-> now + idleLifetime]
        /\ IF CookieValue(cookies, "session-created", now) # <<>>
           THEN cookies'["session-created"] = cookies["session-created"]
           ELSE cookies'["session-created"] =
                    [present |-> TRUE, value |-> NumberToString(now),
                     expires |-> now + absoluteLifetime]

C22_TouchLifetimesMatchLimits ==
    [][C22_TouchStep(MAX_IDLE_TIME_MS, MAX_SESSION_AGE_MS)]_vars

\* What the code does instead: the last activity lives for the warning
\* horizon of 30 minutes and the creation time for the idle limit of 1 hour.
C22_TouchLifetimesAsCoded ==
    [][C22_TouchStep(SESSION_TIMEOUT_MS, MAX_IDLE_TIME_MS)]_vars

\* updateSessionActivity() has just written both cookies.
C22_BothWritten ==
    /\ lastOp.op = "updateSessionActivity"
    /\ cookies["last-activity"].expires = now + SESSION_TIMEOUT_MS
    /\ cookies["session-created"].expires = now + MAX_IDLE_TIME_MS

(***************************************************************************)
(* C23: with a provider session, validateSession() reports invalid and     *)
(* extendSession() returns false whenever the last-activity cookie or the  *)
(* session-created cookie is missing, expired or not a number.             *)
(***************************************************************************)
\* The jars a request can carry instead of the current one: one of the two
\* cookies dropped, or replaced by a value that is not a number.
C23_AmbiguousJars ==
    { CookieDelete(cookies, n) : n \in {"last-activity", "session-created"} }
        \cup { [cookies EXCEPT ![n] = [present |-> TRUE, value |-> <<"x">>,
                                       expires |-> now + 1]] :
               n \in {"last-activity", "session-created"} }

C23_Ambiguous(jar) ==
    \E n \in {"last-activity", "session-created"} :
        \/ CookieValue(jar, n, now) = <<>>
        \/ ParseInt(CookieValue(jar, n, now)) = NaN

C23_FailsClosedOnCookies ==
    session =>
        \A jar \in C23_AmbiguousJars \cup {cookies} :
            C23_Ambiguous(jar) =>
                /\ ~validateSession(session, jar, now).isValid
                /\ ~extendSession(session, jar, now).ret

\* validateSession() has just reported a provider session valid although it
\* read neither cookie.
C23_ValidWithoutCookies ==
    /\ lastOp.op = "validateSession"
    /\ lastOp.pre.session
    /\ lastOp.ret
    /\ CookieValue(cookies, "last-activity", now) = <<>>
    /\ CookieValue(cookies, "session-created", now) = <<>>

(***************************************************************************)
(* Client identifier.  A request header is absent (headers.get gives null) *)
(* or carries a string; the strings are the ones the Headers interface     *)
(* returns, without leading or trailing white space.  Each behaviour is    *)
(* one call on one combination of headers.                                 *)
(***************************************************************************)
MaxHeaderLen == 3

NoHeader == [present |-> FALSE, value |-> <<>>]

Header(v) == [present |-> TRUE, value |-> v]

\* if (h): null and the empty string are falsy
Truthy(h) == h.present /\ h.value # <<>>

RECURSIVE TrimStart(_)
TrimStart(s) ==
    IF s # <<>> /\ s[1] = " " THEN TrimStart(SubSeq(s, 2, Len(s))) ELSE s

RECURSIVE TrimEnd(_)
TrimEnd(s) ==
    IF s # <<>> /\ s[Len(s)] = " " THEN TrimEnd(SubSeq(s, 1, Len(s) - 1)) ELSE s

\* s.trim()
Trim(s) == TrimEnd(TrimStart(s))

UnknownId == <<"u", "n", "k", "n", "o", "w", "n">>

\* getClientIP() of the auth actions, which login and register call
getClientIP(h) ==
    IF Truthy(h.forwarded) THEN Trim(Split(h.forwarded.value, ",")[1])
    ELSE IF Truthy(h.realIP) THEN h.realIP.value
    ELSE UnknownId

\* getClientIP(request) exported by the rate limiting module
getClientIPOfRequest(h) ==
    IF Truthy(h.forwarded) THEN Trim(Split(h.forwarded.value, ",")[1])
    ELSE IF Truthy(h.realIP) THEN h.realIP.value
    ELSE IF Truthy(h.cfConnectingIP) THEN h.cfConnectingIP.value
    ELSE UnknownId

ForwardedChars == {"7", ",", " "}

ForwardedValues ==
    { v \in UNION { [1..n -> ForwardedChars] : n \in 0..MaxHeaderLen } :
        v = <<>> \/ (v[1] # " " /\ v[Len(v)] # " ") }

HeaderSets ==
    [forwarded : {NoHeader} \cup { Header(v) : v \in ForwardedValues },
     realIP : {NoHeader, Header(<<>>), Header(<<"8">>)},
     cfConnectingIP : {NoHeader, Header(<<>>), Header(<<"9">>)}]

GetClientIP(h) ==
    /\ lastOp = NoOp
    /\ lastOp' = [op |-> "getClientIP", arg |-> h, pre |-> "",
                  ret |-> getClientIP(h)]
    /\ UNCHANGED <<authVars, now, limVars, jarVars, compVars, csrfVars, sessVars>>

GetClientIPOfRequest(h) ==
    /\ lastOp = NoOp
    /\ lastOp' = [op |-> "getClientIPOfRequest", arg |-> h, pre |-> "",
                  ret |-> getClientIPOfRequest(h)]
    /\ UNCHANGED <<authVars, now, limVars, jarVars, compVars, csrfVars, sessVars>>

IdentityInit ==
    /\ now = 0
    /\ LimiterIdle
    /\ OthersIdle
    /\ lastOp = NoOp

IdentityNext ==
    /\ lastOp = NoOp
    /\ \E h \in HeaderSets :
        \/ GetClientIP(h)
        \/ GetClientIPOfRequest(h)

SpecIdentity == IdentityInit /\ [][IdentityNext]_vars

(***************************************************************************)
(* C24: for every combination of request headers the identifier login and  *)
(* register hand to the limiter is the first comma-separated entry of the  *)
(* forwarded-for header if present, else the real-IP header, else the CDN  *)
(* connecting-IP header, else "unknown", and it is never the empty string. *)
(***************************************************************************)
C24_Reference(h) ==
    IF Truthy(h.forwarded) THEN Trim(Split(h.forwarded.value, ",")[1])
    ELSE IF Truthy(h.realIP) THEN h.realIP.value
    ELSE IF Truthy(h.cfConnectingIP) THEN h.cfConnectingIP.value
    ELSE UnknownId

C24_LoginIdentifier ==
    lastOp.op = "getClientIP" =>
        /\ lastOp.ret = C24_Reference(lastOp.arg)
        /\ lastOp.ret # <<>>

\* The order of the three headers alone, which the helper of the rate
\* limiting module follows and the one of the auth actions does not.
C24_RequestHelperFollowsOrder ==
    lastOp.op = "getClientIPOfRequest" => lastOp.ret = C24_Reference(lastOp.arg)

\* The auth actions ignore the CDN header.
C24_CdnHeaderIgnored ==
    /\ lastOp.op = "getClientIP"
    /\ ~Truthy(lastOp.arg.forwarded)
    /\ ~Truthy(lastOp.arg.realIP)
    /\ Truthy(lastOp.arg.cfConnectingIP)
    /\ lastOp.ret = UnknownId

\* A forwarded-for header whose first entry is empty gives the empty
\* identifier.
C24_EmptyIdentifier ==
    /\ lastOp.op = "getClientIP"
    /\ Truthy(lastOp.arg.forwarded)
    /\ lastOp.ret = <<>>

(***************************************************************************)
(* Secure redirects.  A URL string is a sequence of tokens: the separator  *)
(* "/", path segments, the scheme "http:" and host names, and for encoded  *)
(* parameters "%2F" (an encoded "/") and "%" (a malformed escape).  Each   *)
(* behaviour is one call of one function on one input.                     *)
(***************************************************************************)
MaxUrlLen == 6
MaxParamLen == 3

ALLOWED_REDIRECT_PATHS ==
    {<<"/">>, <<"/", "polls">>, <<"/", "polls", "/", "create">>,
     <<"/", "profile">>, <<"/", "settings">>, <<"/", "login">>,
     <<"/", "register">>}

DefaultFallback == <<"/", "polls">>

OwnHost == "localhost:3000"

HostTokens == {OwnHost, "evil.com"}

\* the origin of NEXT_PUBLIC_APP_URL || 'http://localhost:3000'
AllowedOrigin == <<"http:", "/", "/", OwnHost>>

StartsWith(str, prefix) ==
    Len(str) >= Len(prefix) /\ SubSeq(str, 1, Len(prefix)) = prefix

\* some(allowedPath => path === allowedPath || path.startsWith(allowedPath + '/'))
MatchesWhitelist(path) ==
    \E allowedPath \in ALLOWED_REDIRECT_PATHS :
        path = allowedPath \/ StartsWith(path, Append(allowedPath, "/"))

RECURSIVE SkipSlashes(_)
SkipSlashes(str) ==
    IF str # <<>> /\ str[1] = "/" THEN SkipSlashes(SubSeq(str, 2, Len(str))) ELSE str

\* new URL(url): throws (ok: FALSE) unless url is absolute; after the scheme
\* of a special URL any number of slashes precedes the host, and the host
\* name runs up to the next "/"
ParseURL(url) ==
    IF url = <<>> \/ url[1] # "http:"
    THEN [ok |-> FALSE, origin |-> <<>>, pathname |-> <<>>]
    ELSE LET rest == SkipSlashes(SubSeq(url, 2, Len(url))) IN
         IF rest = <<>>
         THEN [ok |-> FALSE, origin |-> <<>>, pathname |-> <<>>]
         ELSE LET path == SubSeq(rest, 2, Len(rest))
                  host == IF rest[1] \in HostTokens /\ (path = <<>> \/ path[1] = "/")
                          THEN rest[1] ELSE "other"
              IN [ok |-> TRUE,
                  origin |-> <<"http:", "/", "/", host>>,
                  pathname |-> IF path = <<>> \/ path[1] # "/" THEN <<"/">> ELSE path]

isSafeRedirectURL(url) ==
    IF url # <<>> /\ url[1] = "/"
    THEN MatchesWhitelist(url)
    ELSE LET parsedURL == ParseURL(url) IN
         /\ parsedURL.ok
         /\ parsedURL.origin = AllowedOrigin
         /\ MatchesWhitelist(parsedURL.pathname)

\* safeRedirect(url, fallback): the URL handed to redirect()
safeRedirect(url, fallback) ==
    IF isSafeRedirectURL(url) THEN url ELSE fallback

\* searchParams.get('redirect') || get('redirectTo') || get('return_to'):
\* a missing parameter reads as the empty string, which is falsy like null
FirstParam(searchParams) ==
    IF searchParams.redirect # <<>> THEN searchParams.redirect
    ELSE IF searchParams.redirectTo # <<>> THEN searchParams.redirectTo
    ELSE searchParams.return_to

getSafeRedirectURL(searchParams, fallback) ==
    LET redirectTo == FirstParam(searchParams) IN
    IF redirectTo = <<>> THEN fallback
    ELSE IF isSafeRedirectURL(redirectTo) THEN redirectTo ELSE fallback

\* decodeURIComponent(s): throws (ok: FALSE) on a malformed escape
DecodeURIComponent(str) ==
    [ok |-> \A i \in 1..Len(str) : str[i] # "%",
     value |-> [i \in 1..Len(str) |-> IF str[i] = "%2F" THEN "/" ELSE str[i]]]

sanitizeRedirectParam(redirectParam) ==
    IF redirectParam = <<>> THEN DefaultFallback
    ELSE LET decoded == DecodeURIComponent(redirectParam) IN
         IF ~decoded.ok THEN DefaultFallback
         ELSE IF isSafeRedirectURL(decoded.value) THEN decoded.value
         ELSE DefaultFallback

UrlTokens == {"/", "polls", "admin", "http:", OwnHost, "evil.com"}

ParamTokens == {"/", "%2F", "%", "polls", "evil.com"}

Strings(tokens, n) == UNION { [1..k -> tokens] : k \in 0..n }

Urls == Strings(UrlTokens, MaxUrlLen)

Fallbacks == {DefaultFallback, <<"/", "login">>}

QueryValues == {<<>>, <<"/", "polls">>, <<"/", "admin">>, <<"/", "/", "evil.com">>,
                <<"http:", "/", "/", "evil.com", "/", "polls">>}

IsSafeRedirectURL(url) ==
    /\ lastOp = NoOp
    /\ lastOp' = [op |-> "isSafeRedirectURL", arg |-> url, pre |-> "",
                  ret |-> isSafeRedirectURL(url)]
    /\ UNCHANGED <<authVars, now, limVars, jarVars, compVars, csrfVars, sessVars>>

SafeRedirect(url, fallback) ==
    /\ lastOp = NoOp
    /\ lastOp' = [op |-> "safeRedirect", arg |-> url, pre |-> fallback,
                  ret |-> safeRedirect(url, fallback)]
    /\ UNCHANGED <<authVars, now, limVars, jarVars, compVars, csrfVars, sessVars>>

GetSafeRedirectURL(searchParams, fallback) ==
    /\ lastOp = NoOp
    /\ lastOp' = [op |-> "getSafeRedirectURL", arg |-> searchParams,
                  pre |-> fallback,
                  ret |-> getSafeRedirectURL(searchParams, fallback)]
    /\ UNCHANGED <<authVars, now, limVars, jarVars, compVars, csrfVars, sessVars>>

SanitizeRedirectParam(redirectParam) ==
    /\ lastOp = NoOp
    /\ lastOp' = [op |-> "sanitizeRedirectParam", arg |-> redirectParam,
                  pre |-> DefaultFallback,
                  ret |-> sanitizeRedirectParam(redirectParam)]
    /\ UNCHANGED <<authVars, now, limVars, jarVars, compVars, csrfVars, sessVars>>

RedirectInit ==
    /\ now = 0
    /\ LimiterIdle
    /\ OthersIdle
    /\ lastOp = NoOp

RedirectNext ==
    /\ lastOp = NoOp
    /\ \/ \E url \in Urls : IsSafeRedirectURL(url)
       \/ \E url \in Strings(UrlTokens, MaxParamLen), fallback \in Fallbacks :
               SafeRedirect(url, fallback)
       \/ \E searchParams \in [redirect : QueryValues, redirectTo : QueryValues,
                               return_to : QueryValues], fallback \in Fallbacks :
               GetSafeRedirectURL(searchParams, fallback)
       \/ \E redirectParam \in Strings(ParamTokens, MaxParamLen) :
               SanitizeRedirectParam(redirectParam)

SpecRedirect == RedirectInit /\ [][RedirectNext]_vars

(***************************************************************************)
(* C25: isSafeRedirectURL accepts a string only if it is a relative path   *)
(* equal to a whitelisted path or below one, or an absolute URL of the     *)
(* application's own origin with such a path; it accepts no string that    *)
(* starts with "//"; getSafeRedirectURL, sanitizeRedirectParam and         *)
(* safeRedirect yield an accepted URL or the fallback.                     *)
(***************************************************************************)
C25_Internal(url) ==
    \/ /\ StartsWith(url, <<"/">>)
       /\ ~StartsWith(url, <<"/", "/">>)
       /\ MatchesWhitelist(url)
    \/ /\ StartsWith(url, <<"http:">>)
       /\ LET rest == SkipSlashes(Tail(url))
          IN /\ rest # <<>>
             /\ rest[1] = OwnHost
             /\ Len(rest) = 1 \/ MatchesWhitelist(Tail(rest))

C25_AcceptedOrFallback ==
    lastOp.op \in {"safeRedirect", "getSafeRedirectURL", "sanitizeRedirectParam"} =>
        \/ lastOp.ret = lastOp.pre
        \/ isSafeRedirectURL(lastOp.ret)

C25_NoOpenRedirect ==
    /\ lastOp.op = "isSafeRedirectURL" /\ lastOp.ret => C25_Internal(lastOp.arg)
    /\ lastOp.op \in {"safeRedirect", "getSafeRedirectURL", "sanitizeRedirectParam"} =>
            \/ lastOp.ret = lastOp.pre
            \/ C25_Internal(lastOp.ret)

\* With relative strings that start with "//" set aside, only internal URLs
\* are accepted.
C25_InternalUnlessDoubleSlash ==
    lastOp.op = "isSafeRedirectURL" /\ lastOp.ret =>
        \/ C25_Internal(lastOp.arg)
        \/ StartsWith(lastOp.arg, <<"/", "/">>)

\* The protocol-relative URL of another host is accepted.
C25_ProtocolRelativeAccepted ==
    /\ lastOp.op = "isSafeRedirectURL"
    /\ lastOp.arg = <<"/", "/", "evil.com">>
    /\ lastOp.ret

\* An encoded protocol-relative URL comes back decoded from
\* sanitizeRedirectParam.
C25_EncodedProtocolRelativeReturned ==
    /\ lastOp.op = "sanitizeRedirectParam"
    /\ lastOp.arg = <<"%2F", "%2F", "evil.com">>
    /\ lastOp.ret = <<"/", "/", "evil.com">>

(***************************************************************************)
(* Security logger: record(level, message, context).  A context is a tree  *)
(* of objects and arrays with strings at its leaves, held as the set of    *)
(* its leaves, each with the path of keys and array indices leading to it. *)
(* A key is a sequence of words (userPassword: "user", "Password").  The   *)
(* logger replaces every field whose key matches a sensitive pattern,      *)
(* without regard to case, before it emits the line.                       *)
(***************************************************************************)
MaxDepth == 2
MaxFields == 2
MaxAccessTokenLen == 18
SessionIdLen == 16

SensitivePatterns ==
    {"password", "token", "secret", "key", "auth", "session", "cookie", "csrf"}

Redacted == "[REDACTED]"

\* word.toLowerCase()
LowerCaseWord(word) ==
    IF word = "Password" THEN "password" ELSE word

\* the key, lower-cased, contains one of the patterns
SensitiveKey(key) ==
    \E i \in 1..Len(key) : LowerCaseWord(key[i]) \in SensitivePatterns

HasSensitiveKey(path) == \E i \in 1..Len(path) : SensitiveKey(path[i])

\* the path of the outermost field with a sensitive key
RedactedPath(path) ==
    LET i == CHOOSE j \in 1..Len(path) :
                 SensitiveKey(path[j]) /\ \A k \in 1..(j - 1) : ~SensitiveKey(path[k])
    IN SubSeq(path, 1, i)

\* A redaction that looks at the keys of the top-level object only.
RedactTopLevelOnly(context) ==
    { IF SensitiveKey(e.path[1])
      THEN [path |-> <<e.path[1]>>, value |-> Redacted]
      ELSE e : e \in context }

\* the context as emitted
Redact(context) ==
    { IF HasSensitiveKey(e.path)
      THEN [path |-> RedactedPath(e.path), value |-> Redacted]
      ELSE e : e \in context }

\* record(level, message, context): the emitted line
record(level, message, context) ==
    [level |-> level, message |-> message, context |-> Redact(context)]

\* A session handle that is the whole access token.
sessionIdUntruncated(accessToken) == accessToken

\* session.access_token.substring(0, 16), the session handle kept for logging
sessionId(accessToken) ==
    SubSeq(accessToken, 1, IF Len(accessToken) < SessionIdLen
                           THEN Len(accessToken) ELSE SessionIdLen)

LogKeys == {<<"user", "Password">>, <<"note">>, <<"0">>}

LogValues == {"hunter2", "hello"}

LogPaths == UNION { [1..n -> LogKeys] : n \in 1..MaxDepth }

IsPrefix(p, q) == Len(p) <= Len(q) /\ SubSeq(q, 1, Len(p)) = p

RECURSIVE ContextsOfSize(_)
\* the leaves of one tree, at most n of them: no leaf lies at or below another
ContextsOfSize(n) ==
    IF n = 0 THEN {{}}
    ELSE LET smaller == ContextsOfSize(n - 1)
         IN smaller \cup
            { c \cup {e} : c \in smaller,
                           e \in [path : LogPaths, value : LogValues] } 

Contexts ==
    { c \in ContextsOfSize(MaxFields) :
        \A e, f \in c : e # f => ~IsPrefix(e.path, f.path) }

AccessTokens == { [i \in 1..n |-> i] : n \in 0..MaxAccessTokenLen }

Record(context) ==
    /\ lastOp = NoOp
    /\ lastOp' = [op |-> "record", arg |-> context, pre |-> "",
                  ret |-> record("info", "event", context)]
    /\ UNCHANGED <<authVars, now, limVars, jarVars, compVars, csrfVars, sessVars>>

SessionId(accessToken) ==
    /\ lastOp = NoOp
    /\ lastOp' = [op |-> "sessionId", arg |-> accessToken, pre |-> "",
                  ret |-> sessionId(accessToken)]
    /\ UNCHANGED <<authVars, now, limVars, jarVars, compVars, csrfVars, sessVars>>

LoggerInit ==
    /\ now = 0
    /\ LimiterIdle
    /\ OthersIdle
    /\ lastOp = NoOp

LoggerNext ==
    /\ lastOp = NoOp
    /\ \/ \E context \in Contexts : Record(context)
       \/ \E accessToken \in AccessTokens : SessionId(accessToken)

SpecLogger == LoggerInit /\ [][LoggerNext]_vars

(***************************************************************************)
(* C26: in the emitted line every context field whose key matches a        *)
(* sensitive pattern, at any depth and inside arrays, reads "[REDACTED]",  *)
(* and a session handle is a truncated prefix of the access token.  As     *)
(* stated, the field's value appears nowhere in the line; as amended, it   *)
(* appears only where the same value was passed under keys of which none   *)
(* matches.                                                                *)
(***************************************************************************)
C26_FieldRedacted(e) ==
    \E f \in lastOp.ret.context :
        IsPrefix(f.path, e.path) /\ f.value = Redacted

C26_HandleTruncated ==
    lastOp.op = "sessionId" =>
        /\ Len(lastOp.ret) <= SessionIdLen
        /\ IsPrefix(lastOp.ret, lastOp.arg)

C27_EntryOk(id) ==
    attempts[id].present =>
        /\ attempts[id].count >= 1
        /\ attempts[id].blocked <=> (attempts[id].count >= maxAttempts)
        /\ attempts[id].blocked =>
                /\ hist[id].triggerAt >= 0
                /\ attempts[id].resetTime = hist[id].triggerAt + blockDurationMs

C27_EntryInvariants == \A id \in Ids : C27_EntryOk(id)

\* The same for a limiter constructed with at least two attempts.
C27_EntryInvariantsFromTwoAttempts ==
    maxAttempts >= 2 => \A id \in Ids : C27_EntryOk(id)

\* With maxAttempts = 1 the first failure stores count = maxAttempts
\* without blocking.
C27_UnblockedAtThreshold ==
    /\ maxAttempts = 1
    /\ lastOp.op = "recordFailedAttempt"
    /\ attempts[lastOp.arg].present
    /\ attempts[lastOp.arg].count = 1
    /\ ~attempts[lastOp.arg].blocked

\* A blocked entry whose block was renewed by a failure after the first
\* blocking one.
C27_BlockRenewed ==
    \E id \in Ids :
        /\ maxAttempts >= 2
        /\ attempts[id].blocked
        /\ attempts[id].count > maxAttempts
        /\ attempts[id].resetTime = now + blockDurationMs

(***************************************************************************)
(* C28: an entry whose resetTime has passed is logically absent, blocked   *)
(* or not: each of isRateLimited, recordFailedAttempt,                     *)
(* recordSuccessfulAttempt, getRemainingAttempts and getResetTime returns  *)
(* the same value and leaves the same logical state as on a limiter that   *)
(* has no entry for the identifier.                                        *)
(***************************************************************************)
\* The map with every entry that is out of force taken away.
C28_Logical(m, t) ==
    [id \in Ids |-> IF EntryKind(m, id, t) \in {"absent", "expired"}
                    THEN NoEntry ELSE m[id]]

C28_SameAsWithout(id) ==
    LET with == attempts
        without == [attempts EXCEPT ![id] = NoEntry]
    IN /\ isRateLimited(with, id, now).ret = isRateLimited(without, id, now).ret
       /\ C28_Logical(isRateLimited(with, id, now).attempts, now)
            = C28_Logical(isRateLimited(without, id, now).attempts, now)
       /\ C28_Logical(recordFailedAttempt(with, id, now), now)
            = C28_Logical(recordFailedAttempt(without, id, now), now)
       /\ C28_Logical(recordSuccessfulAttempt(with, id), now)
            = C28_Logical(recordSuccessfulAttempt(without, id), now)
       /\ getRemainingAttempts(with, id, now) = getRemainingAttempts(without, id, now)
       /\ getResetTime(with, id, now) = getResetTime(without, id, now)

C28_ExpiredIsAbsent ==
    /\ \A id \in Ids :
            EntryKind(attempts, id, now) = "expired" => C28_SameAsWithout(id)
    /\ lastOp.op = "isRateLimited" /\ lastOp.pre = "expired" =>
            ~lastOp.ret /\ ~attempts[lastOp.arg].present
    /\ lastOp.op = "recordFailedAttempt" /\ lastOp.pre = "expired" =>
            /\ attempts[lastOp.arg].present
            /\ attempts[lastOp.arg].count = 1
            /\ ~attempts[lastOp.arg].blocked
            /\ attempts[lastOp.arg].resetTime <= now + windowMs

\* isRateLimited found the entry of an expired block and allowed, while
\* another identifier's expired block is still stored.
C28_Witness ==
    /\ maxAttempts >= 2
    /\ lastOp.op = "isRateLimited"
    /\ lastOp.pre = "expired"
    /\ hist[lastOp.arg].triggerAt >= 0
    /\ ~lastOp.ret
    /\ \E id \in Ids : EntryKind(attempts, id, now) = "expired" /\ attempts[id].blocked

(***************************************************************************)
(* C29: expiry excludes the boundary instant in every operation of the     *)
(* limiter alike.  At now = resetTime the entry is in force: a blocked     *)
(* identifier is still limited, recordFailedAttempt increments the entry   *)
(* instead of opening a window, and getRemainingAttempts still counts the  *)
(* entry; the entry is expired only when now > resetTime.  As stated the   *)
(* remaining attempts are maxAttempts - count; as amended they are that    *)
(* difference, or 0 when count exceeds maxAttempts.                        *)
(***************************************************************************)
C29_InForce(id, remaining) ==
    LET entry == attempts[id] IN
    /\ entry.blocked =>
            /\ isRateLimited(attempts, id, now).ret
            /\ isRateLimited(attempts, id, now).attempts = attempts
    /\ ~entry.blocked =>
            /\ isRateLimited(attempts, id, now).ret = (entry.count >= maxAttempts)
            /\ isRateLimited(attempts, id, now).attempts = attempts
    /\ recordFailedAttempt(attempts, id, now)[id].count = entry.count + 1
    /\ getRemainingAttempts(attempts, id, now) = remaining

C29_Expired(id) ==
    /\ ~isRateLimited(attempts, id, now).ret
    /\ ~isRateLimited(attempts, id, now).attempts[id].present
    /\ recordFailedAttempt(attempts, id, now)[id].count = 1
    /\ getRemainingAttempts(attempts, id, now) = maxAttempts

C29_BoundaryExclusive ==
    \A id \in Ids :
        attempts[id].present =>
            /\ now = attempts[id].resetTime =>
                    C29_InForce(id, maxAttempts - attempts[id].count)
            /\ now > attempts[id].resetTime => C29_Expired(id)

C29_BoundaryExclusiveClamped ==
    \A id \in Ids :
        attempts[id].present =>
            /\ now <= attempts[id].resetTime =>
                    C29_InForce(id, Max(0, maxAttempts - attempts[id].count))
            /\ now > attempts[id].resetTime => C29_Expired(id)

\* A failure recorded at the very instant its window ends was counted into
\* that window and raised the block.
C29_Witness ==
    \E id \in Ids :
        /\ maxAttempts >= 2
        /\ lastOp.op = "recordFailedAttempt"
        /\ lastOp.arg = id
        /\ lastOp.pre = "counting"
        /\ hist[id].triggerAt = now
        /\ hist[id].windowStart + windowMs = now
        /\ attempts[id].blocked
        /\ attempts[id].count = maxAttempts

(***************************************************************************)
(* The limiter while time keeps advancing: failures are recorded up to a   *)
(* deadline, and the clock runs on until every window and block opened     *)
(* before the deadline has run out.  Nothing in the code calls the limiter *)
(* on its own; only the passing of time is taken as fair.                  *)
(***************************************************************************)
FailureDeadline == 2

LiveHorizon == FailureDeadline + Max(windowMs, blockDurationMs) + 1

LiveTick ==
    /\ now < LiveHorizon
    /\ now' = now + 1
    /\ lastOp' = NoOp
    /\ UNCHANGED <<authVars, limVars, jarVars, compVars, csrfVars, sessVars>>

LiveInit ==
    /\ now = 0
    /\ attempts = [id \in Ids |-> NoEntry]
    /\ maxAttempts \in 1..2
    /\ windowMs \in Windows
    /\ blockDurationMs \in BlockDurations
    /\ hist = [id \in Ids |-> NoHist]
    /\ OthersIdle
    /\ lastOp = NoOp

LiveNext ==
    \/ LiveTick
    \/ \E id \in Ids : IsRateLimited(id)
    \/ \E id \in Ids : now < FailureDeadline /\ RecordFailedAttempt(id)
    \/ \E id \in Ids : RecordSuccessfulAttempt(id)

SpecLimiterLive == LiveInit /\ [][LiveNext]_vars /\ WF_vars(LiveTick)

(***************************************************************************)
(* C30: an identifier's logical state moves only from ABSENT to COUNTING,  *)
(* from COUNTING to BLOCKED, and from COUNTING or BLOCKED to ABSENT, the   *)
(* last by expiry or recordSuccessfulAttempt only; and once no further     *)
(* failure is recorded and time keeps advancing, the identifier becomes    *)
(* and stays logically ABSENT (isRateLimited false, getRemainingAttempts   *)
(* = maxAttempts).  As stated, its stored entry is also removed from the   *)
(* map; as amended, the entry is removed by the next isRateLimited or      *)
(* recordSuccessfulAttempt call for the identifier.                        *)
(***************************************************************************)
C30_State(m, id, t) ==
    IF EntryKind(m, id, t) \in {"absent", "expired"} THEN "ABSENT"
    ELSE IF m[id].blocked THEN "BLOCKED"
    ELSE "COUNTING"

C30_Move(id) ==
    LET from == C30_State(attempts, id, now)
        to == C30_State(attempts', id, now')
    IN /\ <<from, to>> \in {<<"ABSENT", "ABSENT">>, <<"ABSENT", "COUNTING">>,
                            <<"COUNTING", "COUNTING">>, <<"COUNTING", "BLOCKED">>,
                            <<"BLOCKED", "BLOCKED">>,
                            <<"COUNTING", "ABSENT">>, <<"BLOCKED", "ABSENT">>}
       /\ from # "ABSENT" /\ to = "ABSENT" =>
            \/ now' > now /\ attempts' = attempts /\ now' > attempts[id].resetTime
            \/ lastOp'.op = "recordSuccessfulAttempt" /\ lastOp'.arg = id
       \* a call of isRateLimited or recordSuccessfulAttempt for a logically
       \* absent identifier leaves no stored entry
       /\ /\ lastOp'.op \in {"isRateLimited", "recordSuccessfulAttempt"}
          /\ lastOp'.arg = id
          /\ to = "ABSENT"
          => ~attempts'[id].present

C30_Moves == [][\A id \in Ids : C30_Move(id)]_vars

C30_LogicallyAbsent(id) ==
    /\ C30_State(attempts, id, now) = "ABSENT"
    /\ ~isRateLimited(attempts, id, now).ret
    /\ getRemainingAttempts(attempts, id, now) = maxAttempts

InstanceNames == {"auth", "general"}

ReceiverName == IF parked.name = "general" THEN "auth" ELSE "general"

\* The fields of instance n.
Instance(n) ==
    IF parked.name = n
    THEN [attempts |-> parked.attempts, maxAttempts |-> parked.maxAttempts,
          windowMs |-> parked.windowMs, blockDurationMs |-> parked.blockDurationMs]
    ELSE [attempts |-> attempts, maxAttempts |-> maxAttempts,
          windowMs |-> windowMs, blockDurationMs |-> blockDurationMs]

Dispatch ==
    /\ parked' = [name |-> ReceiverName, attempts |-> attempts,
                  maxAttempts |-> maxAttempts, windowMs |-> windowMs,
                  blockDurationMs |-> blockDurationMs, hist |-> hist]
    /\ attempts' = parked.attempts
    /\ maxAttempts' = parked.maxAttempts
    /\ windowMs' = parked.windowMs
    /\ blockDurationMs' = parked.blockDurationMs
    /\ hist' = parked.hist
    /\ lastOp' = [op |-> "dispatch", arg |-> parked.name, pre |-> "", ret |-> FALSE]
    /\ UNCHANGED <<authVars, now, jarVars, provider, csrfVars, sessVars>>

\* The clock steps past generalRateLimiter's window, inside authRateLimiter's.
InstancesSteps == {5 * 60 * 1000}

\* Failures on record in the two instances together.
RecordedFailures ==
    LET a == Instance("auth").attempts
        g == Instance("general").attempts
    IN a["x"].count + a["unknown"].count + g["x"].count + g["unknown"].count

InstancesInit ==
    /\ now = 0
    /\ LimiterIdle
    /\ OthersIdle
    /\ lastOp = NoOp

InstancesNext ==
    \/ \E d \in InstancesSteps : AdvisoryTick(d)
    \/ Dispatch
    \/ \E id \in Ids : IsRateLimited(id)
    \/ \E id \in Ids : RecordedFailures < MaxRecordedFailures /\ RecordFailedAttempt(id)
    \/ \E id \in Ids : RecordSuccessfulAttempt(id)
    \/ \E id \in Ids : GetRemainingAttempts(id)
    \/ \E id \in Ids : GetResetTime(id)

SpecInstances == InstancesInit /\ [][InstancesNext]_vars

(***************************************************************************)
(* C31: a limiter operation on identifier a leaves the entry of every      *)
(* other identifier unchanged, and an operation on one of authRateLimiter  *)
(* and generalRateLimiter leaves the other instance unchanged.             *)
(***************************************************************************)
LimiterOps == {"isRateLimited", "recordFailedAttempt", "recordSuccessfulAttempt",
               "getRemainingAttempts", "getResetTime"}

C31_Step ==
    IF lastOp'.op \in LimiterOps
    THEN /\ ReceiverName' = ReceiverName
         /\ \A n \in InstanceNames \ {ReceiverName} : Instance(n)' = Instance(n)
         /\ \A b \in Ids \ {lastOp'.arg} :
                Instance(ReceiverName)'.attempts[b] = Instance(ReceiverName).attempts[b]
         /\ Instance(ReceiverName)'.maxAttempts = Instance(ReceiverName).maxAttempts
         /\ Instance(ReceiverName)'.windowMs = Instance(ReceiverName).windowMs
         /\ Instance(ReceiverName)'.blockDurationMs
                = Instance(ReceiverName).blockDurationMs
    ELSE \A n \in InstanceNames : Instance(n)' = Instance(n)

C31_KeysAndInstancesIndependent == [][C31_Step]_vars

\* A failure was recorded for one identifier on generalRateLimiter while
\* authRateLimiter holds a blocked entry for the other identifier.
C31_Witness ==
    /\ parked.name = "auth"
    /\ parked.attempts["x"].present
    /\ ~parked.attempts["unknown"].present
    /\ lastOp.op = "recordFailedAttempt"
    /\ lastOp.arg = "unknown"
    /\ attempts["unknown"].present
    /\ ~attempts["x"].present

(***************************************************************************)
(* C32: for any interleaving of k handlers that each call                  *)
(* recordFailedAttempt once for the same identifier within one window,     *)
(* starting from an absent entry, no update is lost: the final count is k  *)
(* and the entry is blocked if and only if k >= maxAttempts.               *)
(* recordFailedAttempt has no await, so each call is one step; the calls   *)
(* of the handlers interleave with every other call on the limiter.        *)
(* hist[id].streak is k, the calls since the entry was absent, and         *)
(* hist[id].windowStart the time of the first of them.                     *)
(***************************************************************************)
C32_InOneWindow(id) ==
    /\ hist[id].streak >= 1
    /\ HistInForce(hist[id], now)
    /\ now <= hist[id].windowStart + windowMs

\* Each call adds one to the count of an entry in force and starts an
\* absent or expired entry at one.
C32_CallCounts ==
    (lastOp'.op = "recordFailedAttempt" /\ attempts' # attempts) =>
        LET id == lastOp'.arg IN
        /\ attempts'[id].present
        /\ attempts'[id].count =
               IF attempts[id].present /\ now <= attempts[id].resetTime
               THEN attempts[id].count + 1 ELSE 1

C32_EachCallCounts == [][C32_CallCounts]_vars

C32_NoLostUpdate ==
    \A id \in Ids :
        C32_InOneWindow(id) =>
            /\ attempts[id].present
            /\ attempts[id].count = hist[id].streak
            /\ attempts[id].blocked <=> (hist[id].streak >= maxAttempts)

\* The same for a limiter constructed with at least two attempts.
C32_NoLostUpdateFromTwoAttempts == maxAttempts >= 2 => C32_NoLostUpdate

\* Three calls in one window, the last of them blocking.
C32_ThreeCalls ==
    /\ maxAttempts = 3
    /\ C32_InOneWindow("x")
    /\ hist["x"].streak = 3
    /\ attempts["x"].blocked
    /\ lastOp.op = "recordFailedAttempt"

\* One call with maxAttempts = 1: k >= maxAttempts and the entry not blocked.
C32_OneCallUnblocked ==
    /\ maxAttempts = 1
    /\ C32_InOneWindow("x")
    /\ hist["x"].streak = 1
    /\ attempts["x"].count = 1
    /\ ~attempts["x"].blocked

(***************************************************************************)
(* Concurrent logins alone: each request checks the limiter, waits for the *)
(* provider while other requests run, and records the outcome.             *)
(***************************************************************************)
LoginsNext ==
    \/ AuthTick
    \/ \E s \in Slots, id \in Ids, input \in LoginInputs : Login(s, id, input)
    \/ \E s \in Slots, answer \in ProviderAnswers : LoginAnswered(s, answer)

SpecLogins == AuthInit /\ [][LoginsNext]_vars

(***************************************************************************)
(* C33: under any interleaving of concurrent login requests from one       *)
(* identifier, at most maxAttempts failed credential verifications are     *)
(* admitted for that identifier within one window before it is blocked.    *)
(* While the clock stands at 0 every request was admitted and answered in  *)
(* the one window that opened at 0, and the count of the entry is the      *)
(* number of failed verifications recorded since the last success.         *)
(***************************************************************************)
C33_AtMostMaxAttemptsVerified ==
    now = 0 => \A id \in Ids : attempts[id].count <= maxAttempts

\* Two logins were admitted while one failure was on record, and both failed.
C33_ThreeFailuresInOneWindow ==
    /\ now = 0
    /\ maxAttempts = 2
    /\ attempts["x"].count = 3
    /\ attempts["x"].blocked
    /\ lastOp.op = "login answered"

(***************************************************************************)
(* C34: once an identifier is blocked it stays denied until its block      *)
(* expires, under every interleaving of login and register requests: no    *)
(* request admitted before the block and completing after it removes the   *)
(* block or shortens it.                                                   *)
(***************************************************************************)
C34_Step ==
    \A id \in Ids :
        (/\ attempts[id].present
         /\ attempts[id].blocked
         /\ now' <= attempts[id].resetTime)
        => /\ attempts'[id].present
           /\ attempts'[id].blocked
           /\ attempts'[id].resetTime >= attempts[id].resetTime

C34_BlockStands == [][C34_Step]_vars

\* A login admitted before the block succeeded during it: the entry is gone
\* and the next request of the identifier is admitted.
C34_BlockRemoved ==
    /\ lastOp.op = "login answered"
    /\ lastOp.pre = "blocked"
    /\ lastOp.ret.successes = 1
    /\ ~attempts[lastOp.arg].present

(***************************************************************************)
(* The session guardian with failing collaborators.  What the provider     *)
(* and the cookie store do during one operation is an input f:             *)
(*   getSession  "ok", "error" (an error object is returned) or "throws"   *)
(*   signOut     "ok", "error" or "throws"                                 *)
(*   sessionEnds whether a failed signOut has ended the provider session   *)
(*   cookieSet   "ok" or "throws"                                          *)
(***************************************************************************)
CallOutcomes == {"ok", "error", "throws"}

Faults ==
    {f \in [getSession : CallOutcomes, signOut : CallOutcomes,
            sessionEnds : BOOLEAN, cookieSet : {"ok", "throws"}] :
        f.signOut = "ok" => f.sessionEnds}

\* getCurrentSession(): an error object and a throw both give null
getCurrentSessionUnder(f, sess, jar, t) ==
    IF f.getSession # "ok" THEN NoSession ELSE getCurrentSession(sess, jar, t)

\* updateSessionActivity(): a throwing cookieStore.set is caught and logged,
\* nothing is written and nothing is reported to the caller
updateSessionActivityUnder(f, jar, t) ==
    IF f.cookieSet = "throws" THEN jar ELSE updateSessionActivity(jar, t)

validateSessionUnder(f, sess, jar, t) ==
    IF ~getCurrentSessionUnder(f, sess, jar, t).present
    THEN [isValid |-> FALSE, reason |-> "No session found"]
    ELSE validateSession(sess, jar, t)

\* terminateSession(reason): a throwing signOut skips the two deletes, a
\* signOut that returns an error object does not
terminateSessionUnder(f, sess, jar, t) ==
    [session |-> IF f.signOut = "ok" THEN FALSE ELSE (sess /\ ~f.sessionEnds),
     cookies |-> IF f.signOut = "throws" THEN jar
                 ELSE CookieDelete(CookieDelete(jar, "last-activity"),
                                   "session-created"),
     events |-> IF getCurrentSessionUnder(f, sess, jar, t).present THEN 1 ELSE 0]

extendSessionUnder(f, sess, jar, t) ==
    LET validation == validateSessionUnder(f, sess, jar, t) IN
    IF ~validation.isValid
    THEN LET r == terminateSessionUnder(f, sess, jar, t)
         IN [ret |-> FALSE, session |-> r.session, cookies |-> r.cookies]
    ELSE [ret |-> TRUE, session |-> sess,
          cookies |-> updateSessionActivityUnder(f, jar, t)]

GetCurrentSessionUnder(f) ==
    /\ lastOp' = [op |-> "getCurrentSession", arg |-> f, pre |-> "",
                  ret |-> getCurrentSessionUnder(f, session, cookies, now).present]
    /\ UNCHANGED <<authVars, now, limVars, jarVars, compVars, csrfVars, sessVars>>

TerminateSessionUnder(f) ==
    LET r == terminateSessionUnder(f, session, cookies, now) IN
    /\ session' = r.session
    /\ cookies' = r.cookies
    /\ lastOp' = [op |-> "terminateSession", arg |-> f, pre |-> "",
                  ret |-> FALSE]
    /\ UNCHANGED <<authVars, now, limVars, honoursTTL, compVars, steps, csrfVars, track>>

ExtendSessionUnder(f) ==
    LET r == extendSessionUnder(f, session, cookies, now) IN
    /\ session' = r.session
    /\ cookies' = r.cookies
    /\ track' = IF r.ret /\ f.cookieSet = "ok"
                THEN TrackAfterTouch(track, now) ELSE track
    /\ lastOp' = [op |-> "extendSession", arg |-> f, pre |-> "",
                  ret |-> r.ret]
    /\ UNCHANGED <<authVars, now, limVars, honoursTTL, compVars, steps, csrfVars>>

FaultsNext ==
    \/ \E d \in {1, MAX_IDLE_TIME_MS} : SessionTick(d)
    \/ ProviderSignIn
    \/ \E f \in Faults : GetCurrentSessionUnder(f)
    \/ \E f \in Faults : TerminateSessionUnder(f)
    \/ \E f \in Faults : ExtendSessionUnder(f)

SpecFaults == SessionInit /\ [][FaultsNext]_vars

(***************************************************************************)
(* C35: failures of the collaborators are treated conservatively: if the   *)
(* provider's session read fails, getCurrentSession reports absent and     *)
(* extendSession returns false; if the provider's sign-out fails or throws *)
(* inside terminateSession, both activity cookies are still deleted and no *)
(* later validateSession reports the session valid; if the cookie write    *)
(* inside updateSessionActivity fails, extendSession does not return true. *)
(***************************************************************************)
C35_ReadFailure ==
    (lastOp.op \in {"getCurrentSession", "extendSession"}
        /\ lastOp.arg.getSession # "ok") => ~lastOp.ret

C35_SignOutFailure ==
    (lastOp.op = "terminateSession" /\ lastOp.arg.signOut # "ok") =>
        /\ ~cookies["last-activity"].present
        /\ ~cookies["session-created"].present
        /\ ~validateSession(session, cookies, now).isValid

C35_WriteFailure ==
    (lastOp.op = "extendSession" /\ lastOp.arg.cookieSet # "ok") => ~lastOp.ret

C35_FailuresConservative ==
    /\ C35_ReadFailure
    /\ C35_SignOutFailure
    /\ C35_WriteFailure

\* signOut threw inside terminateSession: the cookies of a live session are
\* still there and validateSession reports it valid.
C35_CookiesKeptAfterThrow ==
    /\ lastOp.op = "terminateSession"
    /\ lastOp.arg.signOut = "throws"
    /\ cookies["last-activity"].present
    /\ cookies["session-created"].present
    /\ validateSession(session, cookies, now).isValid

\* signOut returned an error object: the cookies are deleted, the provider
\* session lives on and validateSession reports it valid.
C35_ValidAfterFailedSignOut ==
    /\ lastOp.op = "terminateSession"
    /\ lastOp.arg.signOut = "error"
    /\ ~cookies["last-activity"].present
    /\ validateSession(session, cookies, now).isValid

\* The cookie write threw and extendSession returned true.
C35_ExtendedWithoutWrite ==
    /\ lastOp.op = "extendSession"
    /\ lastOp.arg.cookieSet = "throws"
    /\ lastOp.ret
    /\ ~cookies["last-activity"].present

(***************************************************************************)
(* The CSRF token service on a clock of half hours, on which a token can   *)
(* be issued in the last hour of the secret's lifetime.                    *)
(***************************************************************************)
LifetimeSteps == {30 * 60 * 1000, 23 * 60 * 60 * 1000}

LifetimesNext ==
    \/ \E d \in LifetimeSteps : CsrfTick(d)
    \/ GenerateCSRFToken
    \/ \E token \in ValidateInputs : ValidateCSRFToken(token)
    \/ ClearCSRFTokens

SpecCsrfLifetimes == CsrfInit /\ [][LifetimesNext]_vars

(***************************************************************************)
(* C36: an issued CSRF token is valid for at most 1 hour: validateCSRFToken *)
(* rejects a token at every time more than 1 h after the generateCSRFToken *)
(* call that returned it, and at every time after the secret's 24 h        *)
(* lifetime has ended even when the token cookie has not yet expired; a    *)
(* token is never accepted without a live secret.                          *)
(* Stated on the steps: generateCSRFToken stores the token it returns with *)
(* an expiry of 1 h from the call and the secret with one of at most 24 h  *)
(* from its creation, no other step stores or prolongs either cookie, and  *)
(* after every step a candidate is accepted only if it is the stored token *)
(* and neither cookie is past its expiry.                                  *)
(***************************************************************************)
C36_Live(jar, name, t) == jar[name].present /\ t <= jar[name].expires

C36_Step ==
    /\ IF lastOp'.op = "generateCSRFToken"
       THEN /\ cookies'[CSRF_TOKEN_NAME].present
            /\ cookies'[CSRF_TOKEN_NAME].value = lastOp'.arg
            /\ cookies'[CSRF_TOKEN_NAME].expires = now + 60 * 60 * 1000
            /\ cookies'[CSRF_SECRET_NAME].present
            /\ IF C36_Live(cookies, CSRF_SECRET_NAME, now)
               THEN cookies'[CSRF_SECRET_NAME] = cookies[CSRF_SECRET_NAME]
               ELSE cookies'[CSRF_SECRET_NAME].expires = now + 24 * 60 * 60 * 1000
       ELSE \A name \in {CSRF_TOKEN_NAME, CSRF_SECRET_NAME} :
                cookies'[name] \in {cookies[name], NoCookie}
    /\ \A c \in Candidates' :
            validateCSRFToken(cookies', c, now') =>
                /\ c = cookies'[CSRF_TOKEN_NAME].value
                /\ C36_Live(cookies', CSRF_TOKEN_NAME, now')
                /\ C36_Live(cookies', CSRF_SECRET_NAME, now')

ListenerSessions == {"null", "s1", "s2"}
GetUserAnswers == {"user", "no user", "error", "rejects"}

UserOf(sess) == IF sess = "null" THEN "null" ELSE "u"

MountedFlag(p, e) == p.phase = "mounted" /\ p.effect = e

\* useEffect: mounted = true, getUser() is called, the listener subscribed
Mount ==
    /\ provider.phase # "mounted"
    /\ provider.effect < MaxMounts
    /\ provider' = [provider EXCEPT !.phase = "mounted",
                                    !.effect = provider.effect + 1,
                                    !.getUser[provider.effect + 1] = "pending"]
    /\ lastOp' = [op |-> "mount", arg |-> "", pre |-> "", ret |-> FALSE]
    /\ UNCHANGED <<authVars, now, limVars, jarVars, parked, csrfVars, sessVars>>

\* getUser of run e from the answer of supabase.auth.getUser() on: the
\* state cells afterwards
getUserResolved(p, e, answer) ==
    IF answer = "rejects" \/ ~MountedFlag(p, e)
    THEN [p EXCEPT !.getUser[e] = "settled"]
    ELSE [p EXCEPT !.user = IF answer = "user" THEN "u" ELSE "null",
                   !.session = "null",
                   !.loading = FALSE,
                   !.getUser[e] = "settled"]

\* the onAuthStateChange callback
authStateChanged(p, sess) == [p EXCEPT !.session = sess, !.user = UserOf(sess)]

GetUserResolved(e, answer) ==
    /\ provider.getUser[e] = "pending"
    /\ provider' = getUserResolved(provider, e, answer)
    /\ lastOp' = [op |-> "getUser resolved", arg |-> answer,
                  pre |-> IF MountedFlag(provider, e) THEN "mounted" ELSE "unmounted",
                  ret |-> FALSE]
    /\ UNCHANGED <<authVars, now, limVars, jarVars, parked, csrfVars, sessVars>>

AuthStateChanged(sess) ==
    /\ provider.phase = "mounted"
    /\ provider' = authStateChanged(provider, sess)
    /\ lastOp' = [op |-> "auth state changed", arg |-> sess,
                  pre |-> provider.phase, ret |-> FALSE]
    /\ UNCHANGED <<authVars, now, limVars, jarVars, parked, csrfVars, sessVars>>

\* the effect's cleanup: mounted = false, the listener unsubscribed
Unmount ==
    /\ provider.phase = "mounted"
    /\ provider' = [provider EXCEPT !.phase = "unmounted"]
    /\ lastOp' = [op |-> "unmount", arg |-> "", pre |-> "", ret |-> FALSE]
    /\ UNCHANGED <<authVars, now, limVars, jarVars, parked, csrfVars, sessVars>>

ProviderInit ==
    /\ now = 0
    /\ LimiterIdle
    /\ OthersIdle
    /\ lastOp = NoOp

ProviderNext ==
    \/ Mount
    \/ \E e \in Effects, answer \in GetUserAnswers : GetUserResolved(e, answer)
    \/ \E sess \in ListenerSessions : AuthStateChanged(sess)
    \/ Unmount

SpecProvider == ProviderInit /\ [][ProviderNext]_vars

(***************************************************************************)
(* C37: in AuthProvider, under every ordering of the initial getUser       *)
(* result and the auth-state-change callbacks, a session delivered by the  *)
(* listener is never overwritten with null by the initial load; loading    *)
(* goes from true to false exactly once and never back; and after unmount  *)
(* the initial load performs no state update.                              *)
(***************************************************************************)
C37_Cells(p) == <<p.session, p.user, p.loading>>

\* The step is the continuation of a getUser call.
C37_InitialLoad == lastOp'.op = "getUser resolved" /\ provider'.getUser # provider.getUser

C37_SessionKept ==
    (C37_InitialLoad /\ provider.session # "null")
    => provider'.session = provider.session

C37_LoadingOnce ==
    /\ ~provider.loading => ~provider'.loading
    /\ (provider.loading /\ ~provider'.loading) => C37_InitialLoad

C37_NoUpdateAfterUnmount ==
    (C37_InitialLoad /\ lastOp'.pre = "unmounted")
    => C37_Cells(provider') = C37_Cells(provider)

C37_InitialLoadOrdered ==
    [][C37_SessionKept /\ C37_LoadingOnce /\ C37_NoUpdateAfterUnmount]_vars

\* The two parts that hold.
C37_LoadingAndUnmount == [][C37_LoadingOnce /\ C37_NoUpdateAfterUnmount]_vars

\* getUser resolved after the cleanup and changed nothing.
C37_ResolvedAfterUnmount ==
    /\ lastOp.op = "getUser resolved"
    /\ lastOp.pre = "unmounted"
    /\ provider.session = "s1"
    /\ provider.loading

====
